---------------------------- MODULE Spec2Model ----------------------------
(***************************************************************************)
(* A model of mdBook's outline (SUMMARY.md) parser and book loader.        *)
(*                                                                         *)
(*   mdbook-core/src/loader.rs : level, parse_line, read_link, parse_level *)
(*   src/book/book.rs          : load_book_from_disk, load_summary_item,   *)
(*                               load_chapter, create_missing, Book::iter, *)
(*                               BookItems::next, for_each_mut, push_item  *)
(*                                                                         *)
(* Text is modelled by TLA+ strings; a character is a string of length 1.  *)
(* Positions are 1-based here and 0-based in the Rust source.              *)
(***************************************************************************)
EXTENDS Integers, Sequences, FiniteSets, TLC

VARIABLES
    line,       \* the argument of one call of level / parse_line
    width,      \* the spaces_in_tab argument of that call of level
    out,        \* what the call returned
    input,      \* the outline: the lines handed to the root parse_level call
    summary,    \* parse_level's `summary`: the lines not yet consumed
    stack,      \* the active parse_level calls, the root call first
    result,     \* what the root parse_level call returned
    book_summary,   \* load_book_from_disk's `summary`: the parsed outline
    files,      \* the content source: what each location holds
    book,       \* what load_book_from_disk returned: the Book
    created,    \* what create_missing returned
    iterator,   \* the BookItems that Book::iter returned
    yielded,    \* what the calls of BookItems::next returned, in order
    calls,      \* the items for_each_mut handed to its callback, in order
    cfg,        \* load_book's `cfg`: the BuildConfig, of which create_missing is read
    summary_md, \* what reading and parsing SUMMARY.md gives load_book
    again,      \* what a second run of create_missing returned
    config,     \* a Config
    last_set,   \* the last call of Config::set: its key, its value, its result
    fetched,    \* the last call of Config::get: its key and what it returned
    init_args,  \* what `init` is given: its flags, the answers typed, git's answer
    built       \* what `init` left: the builder at builder.build(), and its result

pureVars == <<line, width, out>>
parseVars == <<input, summary, stack, result>>
bookVars == <<book_summary, files, book, created>>
walkVars == <<iterator, yielded, calls>>
loadVars == <<cfg, summary_md, again>>
configVars == <<config, last_set, fetched>>
initVars == <<init_args, built>>
restVars == <<loadVars, configVars, initVars>>

-----------------------------------------------------------------------------
(* Bounds of the model *)

\* longest line handed to level on its own
MaxIndentLen == 5
\* widest indentation unit handed to level on its own
MaxWidth == 4
\* longest line handed to parse_line on its own
MaxLineLen == 5
\* most lines in an outline
MaxLines == 4
\* most top-level items in a parsed outline handed to load_book_from_disk
MaxTop == 3

\* loader.rs:50, `level(summary[0], 4)`
SpacesInTab == 4

-----------------------------------------------------------------------------
(* Strings *)

CharAt(s, i) == SubSeq(s, i, i)

\* str::starts_with
starts_with(s, p) == Len(s) >= Len(p) /\ SubSeq(s, 1, Len(p)) = p

\* str::find on the slice s[from..]: the position in s (1-based) of the first
\* occurrence of pat that starts at or after from; 0 when there is none
RECURSIVE FindFrom(_, _, _)
FindFrom(s, pat, from) ==
    IF from + Len(pat) - 1 > Len(s) THEN 0
    ELSE IF SubSeq(s, from, from + Len(pat) - 1) = pat THEN from
    ELSE FindFrom(s, pat, from + 1)

IsBlank(c) == c = " " \/ c = "\t"

RECURSIVE TrimStart(_)
TrimStart(s) ==
    IF s # "" /\ IsBlank(CharAt(s, 1)) THEN TrimStart(SubSeq(s, 2, Len(s))) ELSE s

RECURSIVE TrimEnd(_)
TrimEnd(s) ==
    IF s # "" /\ IsBlank(CharAt(s, Len(s))) THEN TrimEnd(SubSeq(s, 1, Len(s) - 1)) ELSE s

\* l.trim_matches(|c| c == ' ' || c == '\t')
trim_matches(s) == TrimEnd(TrimStart(s))

Digit(d) == CharAt("0123456789", d + 1)

\* i32::to_string
RECURSIVE to_string(_)
to_string(n) ==
    IF n < 0 THEN "-" \o to_string(0 - n)
    ELSE IF n < 10 THEN Digit(n)
    ELSE to_string(n \div 10) \o Digit(n % 10)

\* every string over alphabet of length at most n
RECURSIVE Strings(_, _)
Strings(alphabet, n) ==
    IF n = 0 THEN {""}
    ELSE LET S == Strings(alphabet, n - 1)
         IN  S \cup {s \o c : s \in S, c \in alphabet}

-----------------------------------------------------------------------------
(* Results *)

Ok(v) == [tag |-> "Ok", val |-> v]
Err(e) == [tag |-> "Err", val |-> e]
NotCalled == [tag |-> "NotCalled", val |-> 0]

-----------------------------------------------------------------------------
(* fn level(line, spaces_in_tab) -> Result<i32> *)

\* the `for ch in line.chars()` loop from character i on; yields the loop's
\* two counters when it ends
RECURSIVE LevelLoop(_, _, _, _, _)
LevelLoop(l, spaces_in_tab, i, spaces, lvl) ==
    IF i > Len(l) THEN [spaces |-> spaces, level |-> lvl]
    ELSE LET ch == CharAt(l, i)
         IN  IF ch # " " /\ ch # "\t"
             THEN [spaces |-> spaces, level |-> lvl]                \* _ => break
             ELSE LET sp == IF ch = " " THEN spaces + 1 ELSE spaces
                      lv == IF ch = "\t" THEN lvl + 1 ELSE lvl
                  IN  IF sp >= spaces_in_tab
                      THEN LevelLoop(l, spaces_in_tab, i + 1, 0, lv + 1)
                      ELSE LevelLoop(l, spaces_in_tab, i + 1, sp, lv)

\* a plausible slip: `spaces > spaces_in_tab` for `spaces >= spaces_in_tab`
RECURSIVE LevelLoopOffByOne(_, _, _, _, _)
LevelLoopOffByOne(l, spaces_in_tab, i, spaces, lvl) ==
    IF i > Len(l) THEN [spaces |-> spaces, level |-> lvl]
    ELSE LET ch == CharAt(l, i)
         IN  IF ch # " " /\ ch # "\t"
             THEN [spaces |-> spaces, level |-> lvl]
             ELSE LET sp == IF ch = " " THEN spaces + 1 ELSE spaces
                      lv == IF ch = "\t" THEN lvl + 1 ELSE lvl
                  IN  IF sp > spaces_in_tab
                      THEN LevelLoopOffByOne(l, spaces_in_tab, i + 1, 0, lv + 1)
                      ELSE LevelLoopOffByOne(l, spaces_in_tab, i + 1, sp, lv)

levelOffByOne(l, spaces_in_tab) ==
    LET r == LevelLoopOffByOne(l, spaces_in_tab, 1, 0, 0)
    IN  IF r.spaces > 0 THEN Err("IndentationError") ELSE Ok(r.level)

level(l, spaces_in_tab) ==
    LET r == LevelLoop(l, spaces_in_tab, 1, 0, 0)
    IN  IF r.spaces > 0 THEN Err("IndentationError") ELSE Ok(r.level)

-----------------------------------------------------------------------------
(* The items of loader.rs: BookItem::{Chapter(String, Chapter), Affix(Chapter), *)
(* Spacer}.  A Chapter holds a name, a path and its nested items.            *)

Item(kind, number, name, path, items) ==
    [kind |-> kind, number |-> number, name |-> name, path |-> path, items |-> items]

Spacer == Item("Spacer", "", "", "", <<>>)

\* Option::None, of parse_line and of read_link
None == [kind |-> "None"]

\* book::Chapter::new(name, path): the constructor stores both verbatim
ChapterNew(name, path) == Ok([name |-> name, path |-> path, items |-> <<>>])

-----------------------------------------------------------------------------
(* fn read_link(line) -> Option<(String, PathBuf)> *)

read_link(l) ==
    LET start1 == FindFrom(l, "[", 1)                       \* line.find('[')
    IN  IF start1 = 0 THEN None
        ELSE LET end1 == FindFrom(l, "](", start1)          \* line[start..].find("](")
             IN  IF end1 = 0 THEN None
                 ELSE LET name == SubSeq(l, start1 + 1, end1 - 1)
                          start2 == end1 + 1                \* the position of '('
                          end2 == FindFrom(l, ")", start2)  \* line[start..].find(')')
                      IN  IF end2 = 0 THEN None
                          ELSE [kind |-> "Some",
                                name |-> name,
                                path |-> SubSeq(l, start2 + 1, end2 - 1)]

-----------------------------------------------------------------------------
(* fn parse_line(l) -> Option<Result<BookItem>> *)

\* a plausible slip: the spacer test made on the untrimmed line
parse_lineUntrimmed(l) ==
    LET trimmed == trim_matches(l)
        c == IF trimmed = "" THEN "" ELSE CharAt(trimmed, 1)
        link == read_link(trimmed)
    IN  IF starts_with(l, "--") THEN Spacer
        ELSE IF c \in {"-", "*"} /\ link.kind = "Some"
        THEN Item("Chapter", "0", link.name, link.path, <<>>)
        ELSE IF c = "[" /\ link.kind = "Some"
        THEN Item("Affix", "", link.name, link.path, <<>>)
        ELSE None

parse_line(l) ==
    LET trimmed == trim_matches(l)
    IN  IF starts_with(trimmed, "--") THEN Spacer           \* Spacers are "------"
        ELSE IF trimmed = "" THEN None                      \* chars().nth(0) is None
        ELSE LET c == CharAt(trimmed, 1)
             IN  IF c = "-" \/ c = "*"                      \* List item
                 THEN LET link == read_link(trimmed)
                      IN  IF link.kind = "Some"
                          THEN LET ch == ChapterNew(link.name, link.path).val
                               IN  Item("Chapter", "0", ch.name, ch.path, ch.items)
                          ELSE None
                 ELSE IF c = "["                            \* Non-list element
                 THEN LET link == read_link(trimmed)
                      IN  IF link.kind = "Some"
                          THEN LET ch == ChapterNew(link.name, link.path).val
                               IN  Item("Affix", "", ch.name, ch.path, ch.items)
                          ELSE None
                 ELSE None

-----------------------------------------------------------------------------
(* One call of level, and one call of parse_line, on arbitrary lines *)

\* the lines an outline of the model is made of
OutlineLines ==
    { "- [A](a.md)",            \* numbered chapters at the root
      "- [C](c.md)",
      "    - [B](b.md)",        \* one level down, by four spaces
      "  - [B](b.md)",          \* two leading spaces
      "        - [D](d.md)",    \* two levels down
      "[P](p.md)",              \* a bare link
      "    [P](p.md)",          \* a bare link one level down
      "---",                    \* a separator
      "\t---",                  \* a separator one level down, by a tab
      "",                       \* a blank line
      "    - plain item" }      \* an ordinary list item one level down

IndentAlphabet == {" ", "\t", "-"}
LineAlphabet == {" ", "\t", "-", "*", "[", "]", "(", ")"}

IdleParse ==
    /\ input = <<>>
    /\ summary = <<>>
    /\ stack = <<>>
    /\ result = NotCalled

IdleBook ==
    /\ book_summary = <<>>
    /\ files = <<>>
    /\ book = NotCalled
    /\ created = NotCalled

\* no BookItems, and for_each_mut not called
NoIterator == [live |-> FALSE, items |-> <<>>, done |-> FALSE]

IdleWalk ==
    /\ iterator = NoIterator
    /\ yielded = <<>>
    /\ calls = NotCalled

\* load_book not called
IdleLoad ==
    /\ cfg = [create_missing |-> FALSE]
    /\ summary_md = NotCalled
    /\ again = NotCalled

\* no Config
IdleConfig ==
    /\ config = NotCalled
    /\ last_set = NotCalled
    /\ fetched = NotCalled

\* `init` not run
IdleInit ==
    /\ init_args = NotCalled
    /\ built = NotCalled

IdleRest == IdleLoad /\ IdleConfig /\ IdleInit

InitLevel ==
    /\ line \in Strings(IndentAlphabet, MaxIndentLen)
    /\ width \in 1..MaxWidth
    /\ out = NotCalled
    /\ IdleParse
    /\ IdleBook
    /\ IdleWalk
    /\ IdleRest

CallLevel ==
    /\ out = NotCalled
    /\ out' = level(line, width)
    /\ UNCHANGED <<line, width>>
    /\ UNCHANGED <<parseVars, bookVars, walkVars, restVars>>

InitLine ==
    /\ line \in Strings(LineAlphabet, MaxLineLen) \cup OutlineLines
    /\ width = SpacesInTab
    /\ out = NotCalled
    /\ IdleParse
    /\ IdleBook
    /\ IdleWalk
    /\ IdleRest

CallParseLine ==
    /\ out = NotCalled
    /\ out' = Ok(parse_line(line))
    /\ UNCHANGED <<line, width>>
    /\ UNCHANGED <<parseVars, bookVars, walkVars, restVars>>

vars == <<line, width, out, input, summary, stack, result,
          book_summary, files, book, created, iterator, yielded, calls,
          cfg, summary_md, again, config, last_set, fetched, init_args, built>>

SpecLevel == InitLevel /\ [][CallLevel]_vars
SpecLine == InitLine /\ [][CallParseLine]_vars

-----------------------------------------------------------------------------
(* fn parse_level(summary, current_level, section) -> Result<Vec<BookItem>>  *)
(*                                                                         *)
(* Each active call is a frame of `stack`: its current_level, its section  *)
(* counters, its items so far and, while it waits for a nested call, the   *)
(* chapter `last` it popped.  One action is one pass through the body of   *)
(* the `while !summary.is_empty()` loop, or the return after it.          *)

Frame(current_level, section, items, last) ==
    [current_level |-> current_level, section |-> section, items |-> items, last |-> last]

\* every outline of at most MaxLines lines
RECURSIVE Outlines(_)
Outlines(n) ==
    IF n = 0 THEN {<<>>}
    ELSE LET S == Outlines(n - 1)
         IN  S \cup {Append(o, l) : o \in S, l \in OutlineLines}

Init ==
    /\ input \in Outlines(MaxLines)
    /\ summary = input
    /\ stack = <<Frame(0, <<0>>, <<>>, None)>>
    /\ result = NotCalled
    /\ line = ""
    /\ width = SpacesInTab
    /\ out = NotCalled
    /\ IdleBook
    /\ IdleWalk
    /\ IdleRest

Running == result.tag = "NotCalled" /\ stack # <<>>

\* parse_level touches nothing but its arguments
Keep == UNCHANGED <<input, pureVars, bookVars, walkVars, restVars>>

Top == stack[Len(stack)]

\* the indentation level of the line to parse: level(summary[0], 4)
HeadLevel == level(summary[1], SpacesInTab)

Panic(msg) == [tag |-> "Panic", val |-> msg]

StructureError == Err("StructureError")

\* an error, or a panic, leaves every active call
Fail(e) ==
    /\ result' = e
    /\ stack' = <<>>
    /\ UNCHANGED summary

\* a plausible slip: the counters joined by "." with no "." after the last
RECURSIVE SectionStringNoTrailingDot(_)
SectionStringNoTrailingDot(section) ==
    IF section = <<>> THEN ""
    ELSE IF Len(section) = 1 THEN to_string(section[1])
    ELSE SectionStringNoTrailingDot(SubSeq(section, 1, Len(section) - 1))
             \o "." \o to_string(section[Len(section)])

\* section.iter().fold("", |s, i| s + &i.to_string() + ".")
RECURSIVE SectionString(_)
SectionString(section) ==
    IF section = <<>> THEN ""
    ELSE SectionString(SubSeq(section, 1, Len(section) - 1))
             \o to_string(section[Len(section)]) \o "."

\* a plausible slip: the `section.pop()` of line 74 forgotten
ResumeNoPop(parent, items) ==
    [parent EXCEPT !.items = Append(@, [parent.last EXCEPT !.items = items]),
                   !.last = None]

\* The caller's side of a nested call that returned Ok(items), lines 70-75:
\* ch.items = <returned>; items.push(Chapter(s, ch)); section.pop(); continue
Resume(parent, items) ==
    [parent EXCEPT !.items = Append(@, [parent.last EXCEPT !.items = items]),
                   !.section = SubSeq(@, 1, Len(@) - 1),
                   !.last = None]

\* Ok(items), line 150: the root call's result, or back into the caller
ReturnItems ==
    IF Len(stack) = 1
    THEN /\ result' = Ok(Top.items)
         /\ stack' = <<>>
    ELSE /\ result' = result
         /\ stack' = Append(SubSeq(stack, 1, Len(stack) - 2),
                            Resume(stack[Len(stack) - 1], Top.items))

\* line 47: the loop ends when no line is left
EndOfInput ==
    /\ Running
    /\ summary = <<>>
    /\ ReturnItems
    /\ UNCHANGED summary
    /\ Keep

\* line 50: `level(summary[0], 4)?`
IndentationError ==
    /\ Running
    /\ summary # <<>>
    /\ HeadLevel.tag = "Err"
    /\ Fail(HeadLevel)
    /\ Keep

\* lines 55-57: level < current_level; the line is left for the caller
Ascend ==
    /\ Running
    /\ summary # <<>>
    /\ HeadLevel.tag = "Ok"
    /\ HeadLevel.val < Top.current_level
    /\ ReturnItems
    /\ UNCHANGED summary
    /\ Keep

Deeper ==
    /\ Running
    /\ summary # <<>>
    /\ HeadLevel.tag = "Ok"
    /\ HeadLevel.val > Top.current_level

\* lines 64-66: items.pop().expect(..) when no item precedes the line
DescendPanic ==
    /\ Deeper
    /\ Top.items = <<>>
    /\ Fail(Panic("There should be at least one item since this can't be the root level"))
    /\ Keep

\* a plausible slip: the nested call made for `current_level + 1`, "one level
\* deeper", and not for the level of the line
DescendOneLevel ==
    /\ Deeper
    /\ Top.items # <<>>
    /\ LET last == Top.items[Len(Top.items)]
           section == Append(Top.section, 0)
           waiting == Frame(Top.current_level, section,
                            SubSeq(Top.items, 1, Len(Top.items) - 1), last)
       IN  /\ last.kind = "Chapter"
           /\ stack' = Append(Append(SubSeq(stack, 1, Len(stack) - 1), waiting),
                              Frame(Top.current_level + 1, section, <<>>, None))
    /\ UNCHANGED <<summary, result>>
    /\ Keep

\* lines 63-70: section.push(0), pop the last item, a chapter, and parse the
\* deeper lines with a copy of the section counters
Descend ==
    /\ Deeper
    /\ Top.items # <<>>
    /\ LET last == Top.items[Len(Top.items)]
           section == Append(Top.section, 0)
           waiting == Frame(Top.current_level, section,
                            SubSeq(Top.items, 1, Len(Top.items) - 1), last)
       IN  /\ last.kind = "Chapter"
           /\ stack' = Append(Append(SubSeq(stack, 1, Len(stack) - 1), waiting),
                              Frame(HeadLevel.val, section, <<>>, None))
    /\ UNCHANGED <<summary, result>>
    /\ Keep

\* a plausible slip: the `if let BookItem::Chapter` test of line 68 forgotten,
\* any last item taken as the parent
DescendBelowAnyItem ==
    /\ Deeper
    /\ Top.items # <<>>
    /\ Top.items[Len(Top.items)].kind # "Chapter"
    /\ LET section == Append(Top.section, 0)
           waiting == Frame(Top.current_level, section,
                            SubSeq(Top.items, 1, Len(Top.items) - 1),
                            Top.items[Len(Top.items)])
       IN  stack' = Append(Append(SubSeq(stack, 1, Len(stack) - 1), waiting),
                           Frame(HeadLevel.val, section, <<>>, None))
    /\ UNCHANGED <<summary, result>>
    /\ Keep

\* lines 76-84: the last item is no chapter
DescendBail ==
    /\ Deeper
    /\ Top.items # <<>>
    /\ Top.items[Len(Top.items)].kind # "Chapter"
    /\ Fail(StructureError)
    /\ Keep

SameLevel ==
    /\ Running
    /\ summary # <<>>
    /\ HeadLevel.tag = "Ok"
    /\ HeadLevel.val = Top.current_level

\* lines 139-143: parse_line gave None; the line is removed
SkipLine ==
    /\ SameLevel
    /\ parse_line(summary[1]) = None
    /\ summary' = Tail(summary)
    /\ UNCHANGED <<stack, result>>
    /\ Keep

\* a plausible slip: the Spacer left out of the first arm
BelowRootErrorAffixOnly(item, lvl) == item.kind = "Affix" /\ lvl > 0

\* lines 94-95: `BookItem::Affix(_) | BookItem::Spacer if level > 0`
BelowRootError(item, lvl) == item.kind \in {"Affix", "Spacer"} /\ lvl > 0

\* line 107: `BookItem::Chapter(_, _) if section[0] == -1`
AfterSuffixError(item, section) == item.kind = "Chapter" /\ section[1] = -1

\* lines 94-104: Affix or Spacer when level > 0
BailBelowRoot ==
    /\ SameLevel
    /\ parse_line(summary[1]) # None
    /\ BelowRootError(parse_line(summary[1]), HeadLevel.val)
    /\ Fail(StructureError)
    /\ Keep

\* lines 107-116: Chapter when section[0] == -1
BailAfterSuffix ==
    /\ SameLevel
    /\ parse_line(summary[1]) # None
    /\ ~BelowRootError(parse_line(summary[1]), HeadLevel.val)
    /\ AfterSuffixError(parse_line(summary[1]), Top.section)
    /\ Fail(StructureError)
    /\ Keep

\* a plausible slip: `section[0] > 1` for `section[0] > 0`
MarkSuffixOffByOne(item, section) ==
    IF item.kind = "Affix" /\ section[1] > 1
    THEN [section EXCEPT ![1] = -1]
    ELSE section

\* lines 119-121: `section[0] = -1` for an Affix when section[0] > 0
MarkSuffix(item, section) ==
    IF item.kind = "Affix" /\ section[1] > 0
    THEN [section EXCEPT ![1] = -1]
    ELSE section

\* lines 129-130: `section[len] += 1` for a Chapter
Increment(item, section) ==
    IF item.kind = "Chapter"
    THEN [section EXCEPT ![Len(section)] = @ + 1]
    ELSE section

\* lines 126-137: a Chapter gets its section string, other items stay
Numbered(item, section) ==
    IF item.kind = "Chapter"
    THEN [item EXCEPT !.number = SectionString(section)]
    ELSE item

\* lines 88-137 and 146-147: the line is an item that passes the checks
PushItem ==
    /\ SameLevel
    /\ LET parsed_item == parse_line(summary[1])
       IN  /\ parsed_item # None
           /\ ~BelowRootError(parsed_item, HeadLevel.val)
           /\ ~AfterSuffixError(parsed_item, Top.section)
           /\ LET section == Increment(parsed_item, MarkSuffix(parsed_item, Top.section))
                  item == Numbered(parsed_item, section)
              IN  stack' = [stack EXCEPT ![Len(stack)] =
                                [@ EXCEPT !.section = section,
                                          !.items = Append(@, item)]]
    /\ summary' = Tail(summary)
    /\ UNCHANGED result
    /\ Keep

Next ==
    \/ EndOfInput
    \/ IndentationError
    \/ Ascend
    \/ DescendPanic
    \/ Descend
    \/ DescendBail
    \/ SkipLine
    \/ BailBelowRoot
    \/ BailAfterSuffix
    \/ PushItem

Spec == Init /\ [][Next]_vars

-----------------------------------------------------------------------------
(* src/book/book.rs: the parsed outline (Summary), the content source and   *)
(* the book.  A path is the sequence of its components, "/" the root.      *)

src_dir == <<"/", "book", "src">>

\* Path::is_absolute
is_absolute(p) == p # <<>> /\ p[1] = "/"

\* Path::join: an absolute path replaces the base
join(base, p) == IF is_absolute(p) THEN p ELSE base \o p

\* Path::strip_prefix
strip_prefix(p, base) ==
    IF Len(p) >= Len(base) /\ SubSeq(p, 1, Len(base)) = base
    THEN Ok(SubSeq(p, Len(base) + 1, Len(p)))
    ELSE Err("StripPrefixError")

\* Option<SectionNumber>
NoNumber == [some |-> FALSE, val |-> <<>>]
Some(n) == [some |-> TRUE, val |-> n]

\* SummaryItem::Separator and SummaryItem::Link(Link)
SummarySeparator ==
    [kind |-> "Separator", name |-> "", location |-> <<>>, number |-> NoNumber,
     nested_items |-> <<>>]

Link(name, location, number, nested_items) ==
    [kind |-> "Link", name |-> name, location |-> location, number |-> number,
     nested_items |-> nested_items]

Summary(prefix_chapters, numbered_chapters, suffix_chapters) ==
    [prefix_chapters |-> prefix_chapters,
     numbered_chapters |-> numbered_chapters,
     suffix_chapters |-> suffix_chapters]

\* BookItem::Separator and BookItem::Chapter(Chapter)
Separator ==
    [kind |-> "Separator", name |-> "", content |-> "", number |-> NoNumber,
     sub_items |-> <<>>, path |-> <<>>, parent_names |-> <<>>]

\* Chapter::new(name, content, path, parent_names), the rest by Default
Chapter(name, content, path, parent_names) ==
    [kind |-> "Chapter", name |-> name, content |-> content, number |-> NoNumber,
     sub_items |-> <<>>, path |-> path, parent_names |-> parent_names]

\* what the content source holds at a location
NoEntry == [kind |-> "None", content |-> ""]
Dir == [kind |-> "Dir", content |-> ""]
File(content) == [kind |-> "File", content |-> content]

Entry(location) == IF location \in DOMAIN files THEN files[location] ELSE NoEntry

\* the items handed to load_book_from_disk are built of these
SummaryItems ==
    { SummarySeparator,
      Link("A", <<"a.md">>, NoNumber, <<>>),
      Link("B", <<"/", "book", "src", "b.md">>, Some(<<2>>), <<>>),
      Link("X", <<"/", "other", "x.md">>, NoNumber, <<>>),
      Link("Empty", <<>>, NoNumber, <<>>),
      Link("nested", <<"sub">>, Some(<<4>>), <<>>),
      Link("A", <<"a.md">>, Some(<<1>>),
           << Link("B", <<"b.md">>, Some(<<1, 1>>), <<>>),
              SummarySeparator,
              Link("C", <<"sub", "c.md">>, Some(<<1, 2>>), <<>>) >>),
      Link("D", <<"b.md">>, Some(<<3>>),
           << Link("A", <<"a.md">>, Some(<<3, 1>>),
                   << Link("C", <<"sub", "c.md">>, Some(<<3, 1, 1>>), <<>>) >>) >>) }

\* the content source with every file of the model present
AllPresent ==
    ( <<"/", "book", "src">> :> Dir
   @@ <<"/", "book", "src", "a.md">> :> File("# A")
   @@ <<"/", "book", "src", "b.md">> :> File("Hello World!")
   @@ <<"/", "book", "src", "sub">> :> Dir
   @@ <<"/", "book", "src", "sub", "c.md">> :> File("")
   @@ <<"/", "other">> :> Dir
   @@ <<"/", "other", "x.md">> :> File("elsewhere") )

Without(fs, gone) == [l \in DOMAIN fs \ gone |-> fs[l]]

\* the content sources of the model: all present, something missing, or a
\* file where a directory is expected
ContentSources ==
    { AllPresent,
      Without(AllPresent, {<<"/", "book", "src", "a.md">>}),
      Without(AllPresent, {<<"/", "book", "src", "b.md">>}),
      Without(AllPresent, {<<"/", "book", "src", "sub", "c.md">>}),
      Without(AllPresent, {<<"/", "book", "src", "sub">>,
                           <<"/", "book", "src", "sub", "c.md">>}),
      Without(AllPresent, {<<"/", "other", "x.md">>}),
      ( Without(AllPresent, {<<"/", "book", "src", "sub">>,
                             <<"/", "book", "src", "sub", "c.md">>})
        @@ <<"/", "book", "src", "sub">> :> File("not a directory") ) }

\* a result that is not Ok: an error, or a panic
Failed(r) == r.tag # "Ok"

RECURSIVE load_summary_item(_, _, _)
RECURSIVE load_chapter(_, _, _)
RECURSIVE LoadItems(_, _, _)

\* the items loaded in order, up to the first that fails: the `?` in the loop
\* of lines 227-230 and the collect::<Result<Vec<_>>>() of lines 281-284
LoadItems(items, src, parent_names) ==
    IF items = <<>> THEN Ok(<<>>)
    ELSE LET first == load_summary_item(items[1], src, parent_names)
         IN  IF Failed(first) THEN first
             ELSE LET rest == LoadItems(Tail(items), src, parent_names)
                  IN  IF Failed(rest) THEN rest
                      ELSE Ok(<<first.val>> \o rest.val)

\* a plausible slip: the chapter's name put in front of its ancestors' names
load_chapterParentsPrepended(link, src, parent_names) ==
    LET location == IF is_absolute(link.location)
                    THEN link.location
                    ELSE join(src, link.location)
        f == Entry(location)
    IN  IF f.kind = "None" THEN Err("Chapter file not found")
        ELSE IF f.kind = "Dir" THEN Err("Unable to read")
        ELSE LET stripped == strip_prefix(location, src)
             IN  IF Failed(stripped) THEN Panic("Chapters are always inside a book")
                 ELSE LET sub_item_parents == <<link.name>> \o parent_names
                          ch == [Chapter(link.name, f.content, stripped.val, parent_names)
                                     EXCEPT !.number = link.number]
                          sub_items == LoadItems(link.nested_items, src, sub_item_parents)
                      IN  IF Failed(sub_items) THEN sub_items
                          ELSE Ok([ch EXCEPT !.sub_items = sub_items.val])

\* a plausible slip: `ch.number = link.number.clone()` left out
load_chapterNumberDropped(link, src, parent_names) ==
    LET location == IF is_absolute(link.location)
                    THEN link.location
                    ELSE join(src, link.location)
        f == Entry(location)
    IN  IF f.kind = "None" THEN Err("Chapter file not found")
        ELSE IF f.kind = "Dir" THEN Err("Unable to read")
        ELSE LET stripped == strip_prefix(location, src)
             IN  IF Failed(stripped) THEN Panic("Chapters are always inside a book")
                 ELSE LET sub_item_parents == Append(parent_names, link.name)
                          ch == Chapter(link.name, f.content, stripped.val, parent_names)
                          sub_items == LoadItems(link.nested_items, src, sub_item_parents)
                      IN  IF Failed(sub_items) THEN sub_items
                          ELSE Ok([ch EXCEPT !.sub_items = sub_items.val])

\* a plausible slip: the result of read_to_string dropped, so that a target
\* that opens but cannot be read gives a chapter without content
load_chapterReadUnchecked(link, src, parent_names) ==
    LET location == IF is_absolute(link.location)
                    THEN link.location
                    ELSE join(src, link.location)
        f == Entry(location)
    IN  IF f.kind = "None" THEN Err("Chapter file not found")
        ELSE LET stripped == strip_prefix(location, src)
             IN  IF Failed(stripped) THEN Panic("Chapters are always inside a book")
                 ELSE LET sub_item_parents == Append(parent_names, link.name)
                          ch == [Chapter(link.name, f.content, stripped.val, parent_names)
                                     EXCEPT !.number = link.number]
                          sub_items == LoadItems(link.nested_items, src, sub_item_parents)
                      IN  IF Failed(sub_items) THEN sub_items
                          ELSE Ok([ch EXCEPT !.sub_items = sub_items.val])

\* a plausible slip: a failure among the nested items skipped instead of
\* returned, the chapter keeping the items loaded before it
load_chapterKeepsLoaded(link, src, parent_names) ==
    LET location == IF is_absolute(link.location)
                    THEN link.location
                    ELSE join(src, link.location)
        f == Entry(location)
    IN  IF f.kind = "None" THEN Err("Chapter file not found")
        ELSE IF f.kind = "Dir" THEN Err("Unable to read")
        ELSE LET stripped == strip_prefix(location, src)
             IN  IF Failed(stripped) THEN Panic("Chapters are always inside a book")
                 ELSE LET sub_item_parents == Append(parent_names, link.name)
                          ch == [Chapter(link.name, f.content, stripped.val, parent_names)
                                     EXCEPT !.number = link.number]
                          sub_items == LoadItems(link.nested_items, src, sub_item_parents)
                      IN  IF Failed(sub_items) THEN Ok(ch)
                          ELSE Ok([ch EXCEPT !.sub_items = sub_items.val])

\* fn load_chapter(link, src_dir, parent_names) -> Result<Chapter>
load_chapter(link, src, parent_names) ==
    LET location == IF is_absolute(link.location)
                    THEN link.location
                    ELSE join(src, link.location)
        f == Entry(location)
    IN  IF f.kind = "None" THEN Err("Chapter file not found")   \* File::open
        ELSE IF f.kind = "Dir" THEN Err("Unable to read")       \* read_to_string
        ELSE LET stripped == strip_prefix(location, src)
             IN  IF Failed(stripped) THEN Panic("Chapters are always inside a book")
                 ELSE LET sub_item_parents == Append(parent_names, link.name)
                          ch == [Chapter(link.name, f.content, stripped.val, parent_names)
                                     EXCEPT !.number = link.number]
                          sub_items == LoadItems(link.nested_items, src, sub_item_parents)
                      IN  IF Failed(sub_items) THEN sub_items
                          ELSE Ok([ch EXCEPT !.sub_items = sub_items.val])

\* fn load_summary_item(item, src_dir, parent_names) -> Result<BookItem>
load_summary_item(item, src, parent_names) ==
    IF item.kind = "Separator" THEN Ok(Separator)
    ELSE load_chapter(item, src, parent_names)

\* a plausible slip: the numbered chapters chained first
load_book_from_diskNumberedFirst(s, src) ==
    LET chapters == LoadItems(s.numbered_chapters \o s.prefix_chapters \o s.suffix_chapters,
                              src, <<>>)
    IN  IF Failed(chapters) THEN chapters
        ELSE Ok([sections |-> chapters.val])

\* fn load_book_from_disk(summary, src_dir) -> Result<Book>
load_book_from_disk(s, src) ==
    LET summary_items == s.prefix_chapters \o s.numbered_chapters \o s.suffix_chapters
        chapters == LoadItems(summary_items, src, <<>>)
    IN  IF Failed(chapters) THEN chapters
        ELSE Ok([sections |-> chapters.val])

\* every sequence of at most n items
RECURSIVE ItemSeqs(_)
ItemSeqs(n) ==
    IF n = 0 THEN {<<>>}
    ELSE LET S == ItemSeqs(n - 1)
         IN  S \cup {Append(q, i) : q \in S, i \in SummaryItems}

\* a parsed outline of at most MaxTop top-level items in its three groups,
\* and a content source
InitBook ==
    /\ \E top \in ItemSeqs(MaxTop) :
          \E i \in 0..Len(top) :
             \E j \in i..Len(top) :
                book_summary = Summary(SubSeq(top, 1, i),
                                       SubSeq(top, i + 1, j),
                                       SubSeq(top, j + 1, Len(top)))
    /\ files \in ContentSources
    /\ book = NotCalled
    /\ created = NotCalled
    /\ line = ""
    /\ width = SpacesInTab
    /\ out = NotCalled
    /\ IdleParse
    /\ IdleWalk
    /\ IdleRest

LoadBookFromDisk ==
    /\ book = NotCalled
    /\ book' = load_book_from_disk(book_summary, src_dir)
    /\ UNCHANGED <<book_summary, files, created>>
    /\ UNCHANGED <<pureVars, parseVars, walkVars, restVars>>

SpecBook == InitBook /\ [][LoadBookFromDisk]_vars

-----------------------------------------------------------------------------
(* fn create_missing(src_dir, summary) -> Result<()>, on the content source *)
(* fs.  The directories above the content root are there, as the root is.  *)

EntryIn(fs, p) == IF p \in DOMAIN fs THEN fs[p] ELSE NoEntry

\* a plausible slip: `filename.is_dir()` for `filename.exists()`
existsIsDir(fs, p) ==
    \/ EntryIn(fs, p).kind = "Dir"
    \/ Len(p) < Len(src_dir) /\ SubSeq(src_dir, 1, Len(p)) = p

\* Path::exists
exists(fs, p) ==
    \/ EntryIn(fs, p).kind # "None"
    \/ Len(p) < Len(src_dir) /\ SubSeq(src_dir, 1, Len(p)) = p

\* Path::parent: None for the root and for the empty path
parent(p) == IF Len(p) <= 1 THEN None ELSE [kind |-> "Some", path |-> SubSeq(p, 1, Len(p) - 1)]

IsDir(fs, p) ==
    \/ EntryIn(fs, p).kind = "Dir"
    \/ Len(p) < Len(src_dir) /\ SubSeq(src_dir, 1, Len(p)) = p

\* the outcome of an operation on the content source
Io(r, fs) == [result |-> r, files |-> fs]

\* fs::create_dir_all: the directory and every directory above it that is
\* missing; an error where a file is in the way
RECURSIVE create_dir_all(_, _)
create_dir_all(fs, p) ==
    IF IsDir(fs, p) THEN Io(Ok(<<>>), fs)
    ELSE IF exists(fs, p) THEN Io(Err("io: not a directory"), fs)
    ELSE LET above == parent(p)
             made == IF above.kind = "None" THEN Io(Ok(<<>>), fs)
                     ELSE create_dir_all(fs, above.path)
         IN  IF Failed(made.result) THEN made
             ELSE Io(Ok(<<>>), (p :> Dir) @@ made.files)

\* File::create: a new empty file, or the file there truncated
FileCreate(fs, p) ==
    LET above == parent(p)
    IN  IF above.kind = "None" \/ ~IsDir(fs, above.path)
        THEN Io(Err("io: no such directory"), fs)
        ELSE IF EntryIn(fs, p).kind = "Dir" THEN Io(Err("io: is a directory"), fs)
        ELSE Io(Ok(<<>>), (p :> File("")) @@ fs)

\* writeln!(f, "# {}", name) on the file at p
writeln(fs, p, name) ==
    Io(Ok(<<>>), (p :> File(fs[p].content \o "# " \o name \o "\n")) @@ fs)

\* a plausible slip: the file opened to append, created when missing, in
\* place of the test of exists() and File::create
RECURSIVE CreateLoopAppends(_, _, _)
CreateLoopAppends(src, items, fs) ==
    IF items = <<>> THEN Io(Ok(<<>>), fs)
    ELSE LET next_item == items[Len(items)]
             rest == SubSeq(items, 1, Len(items) - 1)
         IN  IF next_item.kind # "Link" THEN CreateLoopAppends(src, rest, fs)
             ELSE LET filename == join(src, next_item.location)
                      above == parent(filename)
                      made == IF above.kind = "Some" /\ ~exists(fs, above.path)
                              THEN create_dir_all(fs, above.path)
                              ELSE Io(Ok(<<>>), fs)
                  IN  IF Failed(made.result) THEN made
                      ELSE LET f == IF EntryIn(made.files, filename).kind = "File"
                                    THEN Io(Ok(<<>>), made.files)
                                    ELSE FileCreate(made.files, filename)
                           IN  IF Failed(f.result) THEN f
                               ELSE CreateLoopAppends(src, rest \o next_item.nested_items,
                                                      writeln(f.files, filename,
                                                              next_item.name).files)

\* a plausible slip: the nested items taken up only with a file just created
RECURSIVE CreateLoopNewOnly(_, _, _)
CreateLoopNewOnly(src, items, fs) ==
    IF items = <<>> THEN Io(Ok(<<>>), fs)
    ELSE LET next_item == items[Len(items)]
             rest == SubSeq(items, 1, Len(items) - 1)
         IN  IF next_item.kind # "Link" THEN CreateLoopNewOnly(src, rest, fs)
             ELSE LET filename == join(src, next_item.location)
                      above == parent(filename)
                  IN  IF exists(fs, filename)
                      THEN CreateLoopNewOnly(src, rest, fs)
                      ELSE LET made == IF above.kind = "Some" /\ ~exists(fs, above.path)
                                       THEN create_dir_all(fs, above.path)
                                       ELSE Io(Ok(<<>>), fs)
                           IN  IF Failed(made.result) THEN made
                               ELSE LET f == FileCreate(made.files, filename)
                                    IN  IF Failed(f.result) THEN f
                                        ELSE CreateLoopNewOnly(src,
                                                 rest \o next_item.nested_items,
                                                 writeln(f.files, filename,
                                                         next_item.name).files)

\* the `while !items.is_empty()` loop: the last item is popped, the nested
\* items of a link are put at the end
RECURSIVE CreateLoop(_, _, _)
CreateLoop(src, items, fs) ==
    IF items = <<>> THEN Io(Ok(<<>>), fs)
    ELSE LET next_item == items[Len(items)]
             rest == SubSeq(items, 1, Len(items) - 1)
         IN  IF next_item.kind # "Link" THEN CreateLoop(src, rest, fs)
             ELSE LET filename == join(src, next_item.location)
                      above == parent(filename)
                  IN  IF exists(fs, filename)
                      THEN CreateLoop(src, rest \o next_item.nested_items, fs)
                      ELSE LET made == IF above.kind = "Some" /\ ~exists(fs, above.path)
                                       THEN create_dir_all(fs, above.path)
                                       ELSE Io(Ok(<<>>), fs)
                           IN  IF Failed(made.result) THEN made
                               ELSE LET f == FileCreate(made.files, filename)
                                    IN  IF Failed(f.result) THEN f
                                        ELSE CreateLoop(src, rest \o next_item.nested_items,
                                                        writeln(f.files, filename,
                                                                next_item.name).files)

create_missing(src, s, fs) ==
    CreateLoop(src, s.prefix_chapters \o s.numbered_chapters \o s.suffix_chapters, fs)

\* one pass of create_missing over the outline, before the book is loaded
CreateMissing ==
    /\ created = NotCalled
    /\ book = NotCalled
    /\ LET r == create_missing(src_dir, book_summary, files)
       IN  /\ created' = r.result
           /\ files' = r.files
    /\ UNCHANGED <<book_summary, book>>
    /\ UNCHANGED <<pureVars, parseVars, walkVars, restVars>>

\* a second pass of create_missing over the same outline and content source
CreateMissingAgain ==
    /\ created.tag # "NotCalled"
    /\ again = NotCalled
    /\ book = NotCalled
    /\ LET r == create_missing(src_dir, book_summary, files)
       IN  /\ again' = r.result
           /\ files' = r.files
    /\ UNCHANGED <<book_summary, book, created, cfg, summary_md>>
    /\ UNCHANGED <<pureVars, parseVars, walkVars, configVars, initVars>>

NextMissing ==
    \/ CreateMissing
    \/ CreateMissingAgain

SpecMissing == InitBook /\ [][NextMissing]_vars

-----------------------------------------------------------------------------
(* fn load_book(src_dir, cfg) -> Result<Book>, in three steps: SUMMARY.md   *)
(* read and parsed, the missing files created when cfg asks for it, the    *)
(* book loaded.  What reading and parsing SUMMARY.md gives is an input.    *)

\* a plausible slip: create_missing called whatever the configuration says
create_enabledAlways(c) == TRUE

\* `if cfg.create_missing`
create_enabled(c) == c.create_missing

\* every parsed outline of at most MaxTop top-level items
Summaries ==
    { Summary(SubSeq(top, 1, i), SubSeq(top, i + 1, j), SubSeq(top, j + 1, Len(top))) :
        <<top, i, j>> \in { <<t, a, b>> \in ItemSeqs(MaxTop) \X (0..MaxTop) \X (0..MaxTop) :
                             a <= b /\ b <= Len(t) } }

InitLoad ==
    /\ summary_md \in {Err("Couldn't open SUMMARY.md"), Err("Summary parsing failed")}
                      \cup {Ok(s) : s \in Summaries}
    /\ cfg \in {[create_missing |-> b] : b \in BOOLEAN}
    /\ files \in ContentSources
    /\ book_summary = <<>>
    /\ book = NotCalled
    /\ created = NotCalled
    /\ again = NotCalled
    /\ line = ""
    /\ width = SpacesInTab
    /\ out = NotCalled
    /\ IdleParse
    /\ IdleWalk
    /\ IdleConfig
    /\ IdleInit

KeepLoad == UNCHANGED <<cfg, summary_md, again, pureVars, parseVars, walkVars,
                        configVars, initVars>>

\* lines 14-21: SUMMARY.md opened, read and parsed, or load_book left by `?`
ReadSummary ==
    /\ summary_md.tag # "NotCalled"
    /\ book_summary = <<>>
    /\ book = NotCalled
    /\ IF summary_md.tag = "Ok"
       THEN book_summary' = summary_md.val /\ UNCHANGED book
       ELSE book' = summary_md /\ UNCHANGED book_summary
    /\ UNCHANGED <<files, created>>
    /\ KeepLoad

\* lines 23-25: create_missing when the configuration asks for it
CreateWhenEnabled ==
    /\ book_summary # <<>>
    /\ book = NotCalled
    /\ created = NotCalled
    /\ create_enabled(cfg)
    /\ LET r == create_missing(src_dir, book_summary, files)
       IN  /\ created' = r.result
           /\ files' = r.files
           /\ book' = IF Failed(r.result) THEN Err("Unable to create missing chapters")
                      ELSE book
    /\ UNCHANGED book_summary
    /\ KeepLoad

\* line 27: load_book_from_disk, after create_missing when that was to run
Resolve ==
    /\ book_summary # <<>>
    /\ create_enabled(cfg) => created.tag = "Ok"
    /\ LoadBookFromDisk

NextLoad ==
    \/ ReadSummary
    \/ CreateWhenEnabled
    \/ Resolve

SpecLoad == InitLoad /\ [][NextLoad]_vars

-----------------------------------------------------------------------------
(* src/book/book.rs: the walkers of a Book.  A reference to a BookItem is   *)
(* modelled by the item's place in the tree: the index of its top-level    *)
(* ancestor in `sections`, then the index in each `sub_items` on the way.  *)

\* VirtualChapter::new(name, content), the rest by Default; it has neither a
\* path nor parent_names
VirtualChapter(name, content) ==
    [kind |-> "VirtualChapter", name |-> name, content |-> content, number |-> NoNumber,
     sub_items |-> <<>>, path |-> <<>>, parent_names |-> <<>>]

\* Book::new()
BookNew == [sections |-> <<>>]

\* the item a reference points to
RECURSIVE ItemAt(_, _)
ItemAt(items, ref) ==
    IF Len(ref) = 1 THEN items[ref[1]]
    ELSE ItemAt(items[ref[1]].sub_items, Tail(ref))

\* self.sections.iter().collect(): a reference to each of the first n sections
RECURSIVE Collect(_)
Collect(n) == IF n = 0 THEN <<>> ELSE Append(Collect(n - 1), <<n>>)

\* a plausible slip: `extend()` for the loop of push_front; the comment at
\* line 310 names it as the way to a breadth-first iterator
RECURSIVE PushFrontRevExtend(_, _, _)
PushFrontRevExtend(items, ref, k) ==
    IF k = 0 THEN items
    ELSE Append(PushFrontRevExtend(items, ref, k - 1), Append(ref, k))

\* `for sub_item in ch.sub_items.iter().rev() { self.items.push_front(sub_item) }`
\* from the k-th sub_item of the item at ref down to the first
RECURSIVE PushFrontRev(_, _, _)
PushFrontRev(items, ref, k) ==
    IF k = 0 THEN items
    ELSE PushFrontRev(<<Append(ref, k)>> \o items, ref, k - 1)

\* BookItems::next on the queue `items` over the tree `sections`: the queue
\* it leaves and the Option it returns
next(items, sections) ==
    IF items = <<>> THEN [items |-> <<>>, item |-> None]          \* pop_front: None
    ELSE LET ref == Head(items)
             item == ItemAt(sections, ref)
         IN  [items |-> IF item.kind = "Chapter"
                        THEN PushFrontRev(Tail(items), ref, Len(item.sub_items))
                        ELSE Tail(items),
              item |-> [kind |-> "Some", ref |-> ref]]

\* the callbacks handed to for_each_mut: one that only reads the item, one
\* that replaces the content of a chapter
Callbacks == {"read", "set_content"}

func(f, item) ==
    IF f = "set_content" /\ item.kind \in {"Chapter", "VirtualChapter"}
    THEN [item EXCEPT !.content = "changed"]
    ELSE item

\* a plausible slip: the callback made before the recursion into the sub_items
RECURSIVE for_each_mutCallbackFirst(_, _, _, _)
for_each_mutCallbackFirst(f, items, at, i) ==
    IF i > Len(items) THEN [items |-> items, calls |-> <<>>]
    ELSE LET ref == Append(at, i)
             called == func(f, items[i])
             below == IF called.kind = "Chapter"
                      THEN for_each_mutCallbackFirst(f, called.sub_items, ref, 1)
                      ELSE [items |-> called.sub_items, calls |-> <<>>]
             item == [called EXCEPT !.sub_items = below.items]
             rest == for_each_mutCallbackFirst(f, [items EXCEPT ![i] = item], at, i + 1)
         IN  [items |-> rest.items, calls |-> <<ref>> \o below.calls \o rest.calls]

\* a plausible slip: the callback made on chapters only
RECURSIVE for_each_mutChaptersOnly(_, _, _, _)
for_each_mutChaptersOnly(f, items, at, i) ==
    IF i > Len(items) THEN [items |-> items, calls |-> <<>>]
    ELSE LET ref == Append(at, i)
             below == IF items[i].kind = "Chapter"
                      THEN for_each_mutChaptersOnly(f, items[i].sub_items, ref, 1)
                      ELSE [items |-> items[i].sub_items, calls |-> <<>>]
             item == [items[i] EXCEPT !.sub_items = below.items]
             called == IF item.kind = "Chapter" THEN func(f, item) ELSE item
             rest == for_each_mutChaptersOnly(f, [items EXCEPT ![i] = called], at, i + 1)
         IN  [items |-> rest.items,
              calls |-> below.calls
                        \o (IF item.kind = "Chapter" THEN <<ref>> ELSE <<>>)
                        \o rest.calls]

\* a plausible slip: the sub_items taken out of the chapter for the recursion
\* and not put back
RECURSIVE for_each_mutSubItemsTaken(_, _, _, _)
for_each_mutSubItemsTaken(f, items, at, i) ==
    IF i > Len(items) THEN [items |-> items, calls |-> <<>>]
    ELSE LET ref == Append(at, i)
             below == IF items[i].kind = "Chapter"
                      THEN for_each_mutSubItemsTaken(f, items[i].sub_items, ref, 1)
                      ELSE [items |-> items[i].sub_items, calls |-> <<>>]
             item == IF items[i].kind = "Chapter"
                     THEN [items[i] EXCEPT !.sub_items = <<>>]
                     ELSE items[i]
             called == func(f, item)
             rest == for_each_mutSubItemsTaken(f, [items EXCEPT ![i] = called], at, i + 1)
         IN  [items |-> rest.items, calls |-> below.calls \o <<ref>> \o rest.calls]

\* fn for_each_mut(func, items): the `for item in items` loop from the i-th
\* item on, `at` the reference of the chapter that holds `items`; yields the
\* items as the callback left them and the references it was called on
RECURSIVE for_each_mut(_, _, _, _)
for_each_mut(f, items, at, i) ==
    IF i > Len(items) THEN [items |-> items, calls |-> <<>>]
    ELSE LET ref == Append(at, i)
             below == IF items[i].kind = "Chapter"
                      THEN for_each_mut(f, items[i].sub_items, ref, 1)
                      ELSE [items |-> items[i].sub_items, calls |-> <<>>]
             item == [items[i] EXCEPT !.sub_items = below.items]
             called == func(f, item)
             rest == for_each_mut(f, [items EXCEPT ![i] = called], at, i + 1)
         IN  [items |-> rest.items, calls |-> below.calls \o <<ref>> \o rest.calls]

\* most items appended to a Book by push_item
MaxPushed == 2

\* the items handed to push_item
PushedItems ==
    { Separator,
      Chapter("P", "p", <<"p.md">>, <<>>),
      VirtualChapter("V", "v"),
      [VirtualChapter("W", "w") EXCEPT
          !.sub_items = << Chapter("Q", "q", <<"q.md">>, <<"W">>) >>],
      [Chapter("R", "r", <<"r.md">>, <<>>) EXCEPT
          !.sub_items = << [VirtualChapter("W", "w") EXCEPT
                               !.sub_items = << Chapter("Q", "q", <<"q.md">>, <<"R", "W">>),
                                                Separator >>],
                           Chapter("S", "s", <<"s.md">>, <<"R">>) >>] }

\* a Book to load from an outline, or Book::new() to build by push_item
InitWalk ==
    \/ InitBook
    \/ /\ book_summary = <<>>
       /\ files = <<>>
       /\ book = Ok(BookNew)
       /\ created = NotCalled
       /\ line = ""
       /\ width = SpacesInTab
       /\ out = NotCalled
       /\ IdleParse
       /\ IdleWalk
       /\ IdleRest

\* no BookItems borrows the Book
Unborrowed == ~iterator.live \/ iterator.done

KeepWalk == UNCHANGED <<book_summary, files, created, pureVars, parseVars, restVars>>

\* Book::push_item, on a Book that no outline gave, before it is walked
PushBookItem ==
    /\ book.tag = "Ok"
    /\ book_summary = <<>>
    /\ ~iterator.live
    /\ calls = NotCalled
    /\ Len(book.val.sections) < MaxPushed
    /\ \E item \in PushedItems :
          book' = Ok([book.val EXCEPT !.sections = Append(@, item)])
    /\ UNCHANGED walkVars
    /\ KeepWalk

\* Book::iter
Iter ==
    /\ book.tag = "Ok"
    /\ Unborrowed
    /\ iterator' = [live |-> TRUE, items |-> Collect(Len(book.val.sections)),
                    done |-> FALSE]
    /\ yielded' = <<>>
    /\ UNCHANGED <<book, calls>>
    /\ KeepWalk

\* BookItems::next, up to the call that returns None
IterNext ==
    /\ iterator.live
    /\ ~iterator.done
    /\ LET r == next(iterator.items, book.val.sections)
       IN  /\ iterator' = [iterator EXCEPT !.items = r.items,
                                           !.done = r.item.kind = "None"]
           /\ yielded' = IF r.item.kind = "None" THEN yielded
                         ELSE Append(yielded, r.item.ref)
    /\ UNCHANGED <<book, calls>>
    /\ KeepWalk

\* Book::for_each_mut
ForEachMut ==
    /\ book.tag = "Ok"
    /\ Unborrowed
    /\ calls = NotCalled
    /\ \E f \in Callbacks :
          LET r == for_each_mut(f, book.val.sections, <<>>, 1)
          IN  /\ book' = Ok([book.val EXCEPT !.sections = r.items])
              /\ calls' = Ok(r.calls)
    /\ UNCHANGED <<iterator, yielded>>
    /\ KeepWalk

NextWalk ==
    \/ LoadBookFromDisk
    \/ PushBookItem
    \/ Iter
    \/ IterNext
    \/ ForEachMut

SpecWalk == InitWalk /\ [][NextWalk]_vars

-----------------------------------------------------------------------------
(* What the properties below speak of *)

Done == result.tag # "NotCalled"

IsErr(r, e) == r.tag = "Err" /\ r.val = e

\* the lines removed from `summary` so far; a failed parse leaves the line
\* it failed on at the head of `summary`
Consumed == Len(input) - Len(summary)

LevelAt(i) == level(input[i], SpacesInTab)

KindAt(i) == parse_line(input[i]).kind

\* line i is validly indented at level 0 and of the given kind
RootLine(i, kind) == LevelAt(i).tag = "Ok" /\ LevelAt(i).val = 0 /\ KindAt(i) = kind

\* line i is validly indented below the root
BelowRoot(i) == LevelAt(i).tag = "Ok" /\ LevelAt(i).val > 0

\* the items of a tree, each parent before its nested items
RECURSIVE Flatten(_)
Flatten(items) ==
    IF items = <<>> THEN <<>>
    ELSE <<[items[1] EXCEPT !.items = <<>>]>> \o Flatten(items[1].items) \o Flatten(Tail(items))

-----------------------------------------------------------------------------
(* C1 *)

\* line k is a list-style link at the root that follows a bare link at the
\* root which itself follows a list-style link at the root
LateChapter(k) ==
    /\ RootLine(k, "Chapter")
    /\ \E i, j \in 1..(k - 1) : i < j /\ RootLine(i, "Chapter") /\ RootLine(j, "Affix")

\* C1: once a bare link has appeared at the root after a numbered item, a
\* later list-style link at the root is never consumed: the parse that
\* reaches it fails there with StructureError; and no outline that parsed
\* has, at the root, a numbered item after a back-matter item.
C1_NoChapterAfterBackMatter ==
    /\ \A k \in 1..Len(input) :
          LateChapter(k) =>
              /\ Consumed < k
              /\ (Done /\ Consumed = k - 1) => IsErr(result, "StructureError")
    /\ result.tag = "Ok" =>
          ~ \E i, j, k \in 1..Len(result.val) :
                /\ i < j /\ j < k
                /\ result.val[i].kind = "Chapter"
                /\ result.val[j].kind = "Affix"
                /\ result.val[k].kind = "Chapter"

\* a parse that failed on a list-style link at the root after back matter
C1_Witness ==
    /\ IsErr(result, "StructureError")
    /\ Consumed < Len(input)
    /\ LateChapter(Consumed + 1)

-----------------------------------------------------------------------------
(* C2 *)

\* line i is a list-style link and line i + 1 a separator or a bare link
\* indented below the root
AffixBelowChapter(i) ==
    /\ i + 1 <= Len(input)
    /\ LevelAt(i).tag = "Ok" /\ KindAt(i) = "Chapter"
    /\ BelowRoot(i + 1) /\ KindAt(i + 1) \in {"Spacer", "Affix"}

\* C2: a separator or bare link indented below the root, directly below a
\* numbered chapter, is never consumed; the parse that reaches it fails
\* there with StructureError, and no outline is returned.
C2_NoAffixBelowRoot ==
    \A i \in 1..Len(input) :
        AffixBelowChapter(i) =>
            /\ Consumed <= i
            /\ result.tag # "Ok"
            /\ (Done /\ Consumed = i) => IsErr(result, "StructureError")

\* a parse that consumed a numbered chapter and failed on the separator or
\* bare link indented right below it
C2_Witness ==
    /\ IsErr(result, "StructureError")
    /\ Consumed >= 1
    /\ AffixBelowChapter(Consumed)

-----------------------------------------------------------------------------
(* C3 *)

\* the line to parse is deeper than the level being parsed and the last
\* item at that level is a separator or a bare link
DeeperBelowAffix ==
    /\ Deeper
    /\ Top.items # <<>>
    /\ Top.items[Len(Top.items)].kind \in {"Spacer", "Affix"}

\* C3: when a line is deeper than the level being parsed and the item that
\* precedes it at that level is a separator or a bare link, the parse fails
\* with StructureError.
C3_NoChildrenBelowAffix ==
    [][DeeperBelowAffix => IsErr(result', "StructureError")]_vars

\* a parse that failed on an indented line right after a separator or bare
\* link at the root
C3_Witness ==
    /\ IsErr(result, "StructureError")
    /\ Consumed >= 1 /\ Consumed < Len(input)
    /\ (RootLine(Consumed, "Spacer") \/ RootLine(Consumed, "Affix"))
    /\ BelowRoot(Consumed + 1)

-----------------------------------------------------------------------------
(* C4 *)

\* the line to parse is deeper than the level being parsed and no item
\* precedes it at that level
DeeperWithoutItem ==
    /\ Deeper
    /\ Top.items = <<>>

\* C4: when a line is deeper than the level being parsed and no item
\* precedes it at that level, the parse returns a StructureError.
C4_NoParentIsStructureError ==
    [][DeeperWithoutItem => IsErr(result', "StructureError")]_vars

-----------------------------------------------------------------------------
(* C5 *)

\* how many of the first n characters of l are c
CountIn(l, n, c) == Cardinality({i \in 1..n : CharAt(l, i) = c})

\* the length of the leading run of spaces and tabs of l
LeadingRun(l) ==
    CHOOSE n \in 0..Len(l) :
        /\ \A i \in 1..n : IsBlank(CharAt(l, i))
        /\ n < Len(l) => ~IsBlank(CharAt(l, n + 1))

\* C5: with t tabs and s spaces in the leading run of spaces and tabs of the
\* line, level returns t + s / w when s is a multiple of the width w, and
\* fails with IndentationError otherwise.
C5_LevelOfLeadingRun ==
    out.tag # "NotCalled" =>
        LET n == LeadingRun(line)
            t == CountIn(line, n, "\t")
            s == CountIn(line, n, " ")
        IN  IF s % width = 0
            THEN out.tag = "Ok" /\ out.val = t + (s \div width)
            ELSE IsErr(out, "IndentationError")

\* level returned 2 for a tab and four spaces at the default width
C5_Witness ==
    /\ width = SpacesInTab
    /\ out.tag = "Ok" /\ out.val = 2
    /\ CountIn(line, LeadingRun(line), "\t") = 1
    /\ CountIn(line, LeadingRun(line), " ") = 4

-----------------------------------------------------------------------------
(* C6 *)

Chapters(items) == SelectSeq(items, LAMBDA it : it.kind = "Chapter")

\* the final components k for which number is prefix, then k, then "."
FinalComponents(number, prefix) ==
    {k \in 0..(Len(input) + 1) : number = prefix \o to_string(k) \o "."}

FinalComponent(number, prefix) == CHOOSE k \in FinalComponents(number, prefix) : TRUE

\* the number of components of a section number: each ends with a "."
Components(number) == CountIn(number, Len(number), ".")

\* the numbered items of `items`, nested at `depth` below a parent numbered
\* `prefix`, and all below them, are numbered as C6 says
RECURSIVE WellNumbered(_, _, _)
WellNumbered(items, prefix, depth) ==
    LET chs == Chapters(items)
    IN  /\ \A n \in 1..Len(chs) :
              /\ FinalComponents(chs[n].number, prefix) # {}
              /\ Components(chs[n].number) = depth
              /\ WellNumbered(chs[n].items, chs[n].number, depth + 1)
        /\ \A n \in 1..(Len(chs) - 1) :
              FinalComponent(chs[n].number, prefix) < FinalComponent(chs[n + 1].number, prefix)
        /\ (depth > 1 /\ chs # <<>>) => FinalComponent(chs[1].number, prefix) = 1

\* C6: in every outline that parsed, the numbers of the numbered items under
\* one parent strictly increase in declaration order, each is the parent's
\* number with one component appended, the first child has final
\* component 1, and a number has as many components as the item is deep.
C6_SectionNumbers ==
    result.tag = "Ok" => WellNumbered(result.val, "", 1)

\* an outline that parsed with two numbered items at the root, the first of
\* them with two children
C6_Witness ==
    /\ result.tag = "Ok"
    /\ Len(Chapters(result.val)) >= 2
    /\ Len(Chapters(result.val)[1].items) >= 2

-----------------------------------------------------------------------------
(* C7 *)

\* the line to parse is one parse_line reports as not an item
NonItemLineNext ==
    /\ Running
    /\ summary # <<>>
    /\ parse_line(summary[1]) = None

\* C7: a line that is not an item is discarded: it adds no item, raises no
\* error, and the lines after it are parsed as if it were absent, that is,
\* from the state the parser was in when it reached the line.
C7_NonItemLineDiscarded ==
    [][NonItemLineNext =>
          /\ summary' = Tail(summary)
          /\ stack' = stack
          /\ result' = result]_vars

-----------------------------------------------------------------------------
(* C8 *)

ExampleOutline == <<"- [A](a.md)", "  - [B](b.md)", "- [C](c.md)">>

ExampleByFourSpaces == <<"- [A](a.md)", "    - [B](b.md)", "- [C](c.md)">>

ChapterNames(items) ==
    LET chs == Chapters(Flatten(items)) IN [i \in 1..Len(chs) |-> chs[i].name]

ChapterNumbers(items) ==
    LET chs == Chapters(Flatten(items)) IN [i \in 1..Len(chs) |-> chs[i].number]

IsExampleBook(r) ==
    /\ r.tag = "Ok"
    /\ ChapterNames(r.val) = <<"A", "B", "C">>
    /\ ChapterNumbers(r.val) = <<"1.", "1.1.", "2.">>

\* C8 as stated: the example outline, its nested line indented by two
\* spaces, yields the chapters A, B, C numbered 1., 1.1., 2.
C8_ExampleAsStated ==
    (input = ExampleOutline /\ Done) => IsExampleBook(result)

\* C8, amended: at the indentation width 4 the example outline fails on its
\* second line with IndentationError; with that line indented by four
\* spaces it yields the chapters A, B, C, depth-first, numbered 1., 1.1., 2.
C8_ExampleByFourSpaces ==
    /\ (input = ExampleOutline /\ Done) =>
           IsErr(result, "IndentationError") /\ Consumed = 1
    /\ (input = ExampleByFourSpaces /\ Done) => IsExampleBook(result)

\* the example with four spaces, parsed
C8_Witness ==
    /\ input = ExampleByFourSpaces
    /\ result.tag = "Ok"

-----------------------------------------------------------------------------
(* C9 *)

\* the line without its leading and trailing spaces and tabs
Trimmed(l) ==
    LET solid == {i \in 1..Len(l) : ~IsBlank(CharAt(l, i))}
    IN  IF solid = {} THEN ""
        ELSE SubSeq(l, CHOOSE i \in solid : \A j \in solid : i <= j,
                       CHOOSE i \in solid : \A j \in solid : i >= j)

\* where pat occurs in t after position `after`
Occurrences(t, pat, after) ==
    {i \in (after + 1)..(Len(t) - Len(pat) + 1) : SubSeq(t, i, i + Len(pat) - 1) = pat}

Least(S) == CHOOSE i \in S : \A j \in S : i <= j

\* the first `[`, the next `](` after it and the first `)` after that
OpenAt(t) == Least(Occurrences(t, "[", 0))
MiddleAt(t) == Least(Occurrences(t, "](", OpenAt(t)))
CloseAt(t) == Least(Occurrences(t, ")", MiddleAt(t) + 1))

LinkFound(t) ==
    /\ Occurrences(t, "[", 0) # {}
    /\ Occurrences(t, "](", OpenAt(t)) # {}
    /\ Occurrences(t, ")", MiddleAt(t) + 1) # {}

IsLink(item, kind, t) ==
    /\ item.kind = kind
    /\ item.name = SubSeq(t, OpenAt(t) + 1, MiddleAt(t) - 1)
    /\ item.path = SubSeq(t, MiddleAt(t) + 2, CloseAt(t) - 1)

\* C9: on the trimmed line, parse_line gives a separator when it starts with
\* "--"; else a numbered link when it starts with "-" or "*" and a link is
\* found; else a bare link when it starts with "[" and a link is found;
\* else nothing.  The name lies between the first "[" and the next "](",
\* the target between that "](" and the first ")" after it.
C9_LineClassifier ==
    out.tag = "Ok" =>
        LET t == Trimmed(line)
            first == IF t = "" THEN "" ELSE CharAt(t, 1)
        IN  IF Len(t) >= 2 /\ SubSeq(t, 1, 2) = "--" THEN out.val.kind = "Spacer"
            ELSE IF first \in {"-", "*"} /\ LinkFound(t) THEN IsLink(out.val, "Chapter", t)
            ELSE IF first = "[" /\ LinkFound(t) THEN IsLink(out.val, "Affix", t)
            ELSE out.val.kind = "None"

\* an indented list-style link, classified
C9_Witness ==
    /\ line = "    - [B](b.md)"
    /\ out.tag = "Ok"
    /\ out.val.kind = "Chapter" /\ out.val.name = "B" /\ out.val.path = "b.md"

-----------------------------------------------------------------------------
(* C10 *)

TopLevel(s) == s.prefix_chapters \o s.numbered_chapters \o s.suffix_chapters

\* where the content source is asked for the target of a link
Target(item) == join(src_dir, item.location)

\* every link of `items`, nested links included, names a file that is there
RECURSIVE AllReadable(_)
AllReadable(items) ==
    \A i \in 1..Len(items) :
        items[i].kind = "Link" =>
            /\ Entry(Target(items[i])).kind = "File"
            /\ AllReadable(items[i].nested_items)

\* every link of `items`, nested links included, names a location under the
\* content root
RECURSIVE AllUnderRoot(_)
AllUnderRoot(items) ==
    \A i \in 1..Len(items) :
        items[i].kind = "Link" =>
            /\ SubSeq(Target(items[i]), 1, Len(src_dir)) = src_dir
            /\ AllUnderRoot(items[i].nested_items)

\* the book's top level is the outline's, item for item: front matter, then
\* numbered items, then back matter
SameTopLevel(r, s) ==
    /\ r.tag = "Ok"
    /\ Len(r.val.sections) = Len(s.prefix_chapters) + Len(s.numbered_chapters)
                             + Len(s.suffix_chapters)
    /\ \A i \in 1..Len(r.val.sections) :
          LET item == TopLevel(s)[i]
              got == r.val.sections[i]
          IN  IF item.kind = "Separator"
              THEN got.kind = "Separator"
              ELSE got.kind = "Chapter" /\ got.name = item.name

\* C10 as stated: when every referenced file is readable, the book's top
\* level has the outline's top-level items, group after group, in order.
C10_TopLevelAsStated ==
    (book # NotCalled /\ AllReadable(TopLevel(book_summary)))
        => SameTopLevel(book, book_summary)

\* C10, amended: when every referenced file is readable and lies under the
\* content root, the book's top level has the outline's top-level items,
\* group after group, in order.
C10_TopLevelUnderRoot ==
    (book # NotCalled /\ AllReadable(TopLevel(book_summary))
                      /\ AllUnderRoot(TopLevel(book_summary)))
        => SameTopLevel(book, book_summary)

\* a book loaded from an outline with an item in each of its three groups
C10_Witness ==
    /\ book.tag = "Ok"
    /\ book_summary.prefix_chapters # <<>>
    /\ book_summary.numbered_chapters # <<>>
    /\ book_summary.suffix_chapters # <<>>
    /\ Len(book.val.sections) = 3
    /\ book.val.sections[1].name # book.val.sections[2].name

-----------------------------------------------------------------------------
(* C11 *)

\* every chapter of `items` carries the names in `ancestors`, and every chapter
\* below it carries them with its parent's name appended
RECURSIVE ParentNamesOk(_, _)
ParentNamesOk(items, ancestors) ==
    \A i \in 1..Len(items) :
        items[i].kind = "Chapter" =>
            /\ items[i].parent_names = ancestors
            /\ ParentNamesOk(items[i].sub_items, Append(ancestors, items[i].name))

\* C11: in every resolved book a chapter's parent_names are the display names
\* of its ancestors from the root down to its parent, without its own name:
\* none for a top-level chapter, the parent's list with the parent's name
\* appended for a child.
C11_ParentNames ==
    book.tag = "Ok" => ParentNamesOk(book.val.sections, <<>>)

\* a book with a chapter two levels down, below two chapters of different names
C11_Witness ==
    /\ book.tag = "Ok"
    /\ \E i \in 1..Len(book.val.sections) :
          LET d == book.val.sections[i]
          IN  /\ d.kind = "Chapter" /\ d.name = "D" /\ d.parent_names = <<>>
              /\ Len(d.sub_items) = 1
              /\ d.sub_items[1].name = "A" /\ d.sub_items[1].parent_names = <<"D">>
              /\ d.sub_items[1].sub_items[1].name = "C"
              /\ d.sub_items[1].sub_items[1].parent_names = <<"D", "A">>

-----------------------------------------------------------------------------
(* C12 *)

\* the book items `got` are the outline items `items` resolved, one for one and
\* in order: a separator for a separator, and for a link a chapter of the
\* link's name and number, the content of its target, the target's location
\* below the content root, and its nested items resolved likewise
RECURSIVE Resolved(_, _)
Resolved(got, items) ==
    /\ Len(got) = Len(items)
    /\ \A i \in 1..Len(items) :
          IF items[i].kind = "Separator" THEN got[i].kind = "Separator"
          ELSE /\ got[i].kind = "Chapter"
               /\ got[i].name = items[i].name
               /\ Entry(Target(items[i])).kind = "File"
               /\ got[i].content = Entry(Target(items[i])).content
               /\ got[i].number = items[i].number
               /\ src_dir \o got[i].path = Target(items[i])
               /\ Resolved(got[i].sub_items, items[i].nested_items)

-----------------------------------------------------------------------------
(* C13 *)

\* the target of a link cannot be read as a file: nothing is there, or a
\* directory is; an empty location names the content root itself
Unreadable(item) == Entry(Target(item)).kind # "File"

UnderRoot(item) ==
    /\ Len(Target(item)) >= Len(src_dir)
    /\ SubSeq(Target(item), 1, Len(src_dir)) = src_dir

NoFailure == [found |-> FALSE, link |-> SummarySeparator]

\* the first link, in the order of resolution (each link before its nested
\* items, these before the items that follow it), that cannot be resolved
RECURSIVE FirstFailure(_)
FirstFailure(items) ==
    IF items = <<>> THEN NoFailure
    ELSE IF items[1].kind = "Separator" THEN FirstFailure(Tail(items))
    ELSE IF Unreadable(items[1]) \/ ~UnderRoot(items[1])
         THEN [found |-> TRUE, link |-> items[1]]
    ELSE LET below == FirstFailure(items[1].nested_items)
         IN  IF below.found THEN below ELSE FirstFailure(Tail(items))

\* the link at which the resolution of the outline stops, if any
Stopped == FirstFailure(TopLevel(book_summary))

\* the messages of the errors that stand for ContentNotFound
ContentNotFound == {"Chapter file not found", "Unable to read"}

\* C13: the resolution of a link whose target cannot be read as a file (the
\* file is not there, the target is a directory, or the location is empty and
\* so names the content root) fails with the error ContentNotFound.
C13_UnreadableTargetFails ==
    (book.tag # "NotCalled" /\ Stopped.found /\ Unreadable(Stopped.link))
        => /\ book.tag = "Err"
           /\ book.val \in ContentNotFound
           /\ Entry(Target(Stopped.link)).kind = "None"
                  => book.val = "Chapter file not found"
           /\ Entry(Target(Stopped.link)).kind = "Dir"
                  => book.val = "Unable to read"

\* a link with an empty location, reached after a link that resolved
C13_Witness ==
    /\ book.tag = "Err"
    /\ Len(TopLevel(book_summary)) = 2
    /\ TopLevel(book_summary)[1].kind = "Link"
    /\ ~Unreadable(TopLevel(book_summary)[1])
    /\ TopLevel(book_summary)[2].kind = "Link"
    /\ TopLevel(book_summary)[2].location = <<>>
    /\ Target(TopLevel(book_summary)[2]) = src_dir
    /\ book.val = "Unable to read"

-----------------------------------------------------------------------------
(* C14 *)

\* some link of `items`, nested links included, has a target that cannot be
\* read
RECURSIVE AnyUnreadable(_)
AnyUnreadable(items) ==
    \E i \in 1..Len(items) :
        /\ items[i].kind = "Link"
        /\ Unreadable(items[i]) \/ AnyUnreadable(items[i].nested_items)

\* C14: resolution is all or nothing.  No book is returned when a link of the
\* outline, at any depth and in any of the three groups, cannot be read; and
\* when the read of a link's content fails, the resolution returns an error.
C14_AllOrNothing ==
    book.tag # "NotCalled" =>
        /\ AnyUnreadable(TopLevel(book_summary)) => book.tag # "Ok"
        /\ (Stopped.found /\ Unreadable(Stopped.link)) => book.tag = "Err"

\* the file of a link two levels down in the back matter is missing, after a
\* chapter of the front matter and the two chapters above it were read
C14_Witness ==
    /\ book.tag = "Err"
    /\ Len(book_summary.prefix_chapters) = 1
    /\ book_summary.prefix_chapters[1].kind = "Link"
    /\ ~AnyUnreadable(book_summary.prefix_chapters)
    /\ UnderRoot(book_summary.prefix_chapters[1])
    /\ book_summary.numbered_chapters = <<>>
    /\ Len(book_summary.suffix_chapters) = 1
    /\ book_summary.suffix_chapters[1].name = "D"
    /\ ~Unreadable(book_summary.suffix_chapters[1])
    /\ ~Unreadable(book_summary.suffix_chapters[1].nested_items[1])
    /\ Unreadable(book_summary.suffix_chapters[1].nested_items[1].nested_items[1])

-----------------------------------------------------------------------------
(* C15 *)

\* C15: a link with an absolute location that can be read but does not lie
\* under the content root makes the resolution return an error to its caller.
C15_PathEscapeReturned ==
    (book.tag # "NotCalled" /\ Stopped.found
        /\ is_absolute(Stopped.link.location)
        /\ ~Unreadable(Stopped.link) /\ ~UnderRoot(Stopped.link))
        => book.tag = "Err"

-----------------------------------------------------------------------------
(* C16 *)

\* a reference to every item stored in the tree, under chapters of either
\* kind: each item, then the items of its sub_items, then the items after it
RECURSIVE PreOrder(_, _, _)
PreOrder(items, at, i) ==
    IF i > Len(items) THEN <<>>
    ELSE <<Append(at, i)>>
         \o PreOrder(items[i].sub_items, Append(at, i), 1)
         \o PreOrder(items, at, i + 1)

AllItems == PreOrder(book.val.sections, <<>>, 1)

\* C16: Book::iter() yields every item of the tree exactly once, depth first
\* and each parent before its children, siblings in the order they are stored:
\* what has been yielded is always the beginning of that sequence, and all of
\* it once next() has returned None.
C16_IterPreOrder ==
    iterator.live =>
        /\ Len(yielded) <= Len(AllItems)
        /\ yielded = SubSeq(AllItems, 1, Len(yielded))
        /\ iterator.done => yielded = AllItems

-----------------------------------------------------------------------------
(* C17 *)

\* the item at reference a holds, at some depth, the item at reference b
Above(a, b) == Len(a) < Len(b) /\ SubSeq(b, 1, Len(a)) = a

\* C17 as stated: for_each_mut calls the callback on a chapter before it calls
\* it on any item below that chapter.
C17_ParentFirst ==
    calls.tag = "Ok" =>
        \A i, j \in 1..Len(calls.val) :
            Above(calls.val[i], calls.val[j]) => i < j

\* C17, amended: for_each_mut calls the callback on a chapter after it has
\* called it on every item below that chapter.
C17_ChildrenFirst ==
    calls.tag = "Ok" =>
        \A i, j \in 1..Len(calls.val) :
            Above(calls.val[i], calls.val[j]) => j < i

\* a pass over a loaded book with a chapter two levels down
C17_Witness ==
    /\ calls.tag = "Ok"
    /\ book_summary # <<>>
    /\ \E i, j, k \in 1..Len(calls.val) :
          /\ Above(calls.val[i], calls.val[j])
          /\ Above(calls.val[j], calls.val[k])
          /\ ItemAt(book.val.sections, calls.val[i]).kind = "Chapter"

-----------------------------------------------------------------------------
(* C18 *)

\* how often the reference ref occurs in the sequence refs
Times(refs, ref) == Cardinality({i \in 1..Len(refs) : refs[i] = ref})

\* C18: a pass of for_each_mut with a callback that leaves the shape of the
\* tree alone calls it exactly once on every item of the tree, as many times
\* as iter() yields items.
C18_OncePerItem ==
    calls.tag = "Ok" =>
        /\ \A i \in 1..Len(AllItems) : Times(calls.val, AllItems[i]) = 1
        /\ Len(calls.val) = Len(AllItems)
        /\ iterator.done => Len(calls.val) = Len(yielded)

-----------------------------------------------------------------------------
(* C19 *)

\* the display names of the links of an outline in reading order: each link,
\* then its nested links, then the links after it
RECURSIVE LinkNames(_)
LinkNames(items) ==
    IF items = <<>> THEN <<>>
    ELSE IF items[1].kind = "Link"
         THEN <<items[1].name>> \o LinkNames(items[1].nested_items) \o LinkNames(Tail(items))
         ELSE LinkNames(Tail(items))

\* the names of the chapters among the items yielded, in the order yielded
RECURSIVE YieldedNames(_)
YieldedNames(refs) ==
    IF refs = <<>> THEN <<>>
    ELSE LET item == ItemAt(book.val.sections, refs[1])
         IN  IF item.kind = "Chapter"
             THEN <<item.name>> \o YieldedNames(Tail(refs))
             ELSE YieldedNames(Tail(refs))

\* C19: round trip.  An outline that resolves, walked to the end with iter()
\* and filtered for chapters, gives the display names of the outline's links
\* in reading order: front matter, numbered chapters, back matter, each link
\* followed by its nested links, depth first.
C19_RoundTrip ==
    (book_summary # <<>> /\ book.tag = "Ok" /\ iterator.done)
        => YieldedNames(yielded) = LinkNames(TopLevel(book_summary))

\* a link in each group, two of them with nested links, one of these two
\* levels deep, walked to the end
C19_Witness ==
    /\ book_summary # <<>>
    /\ book.tag = "Ok"
    /\ iterator.done
    /\ Len(book_summary.prefix_chapters) = 1
    /\ Len(book_summary.numbered_chapters) = 1
    /\ Len(book_summary.suffix_chapters) = 1
    /\ YieldedNames(yielded) = <<"A", "A", "B", "C", "D", "A", "C">>

-----------------------------------------------------------------------------
(* C20 *)

\* every link of the outline, nested links included
RECURSIVE Links(_)
Links(items) ==
    IF items = <<>> THEN {}
    ELSE (IF items[1].kind = "Link" THEN {items[1]} \cup Links(items[1].nested_items) ELSE {})
         \cup Links(Tail(items))

\* C20: the pass that creates missing files never overwrites: whatever the
\* outline, and whether the pass succeeds or fails, every file and directory
\* that was in the content source before the pass is there after it, with the
\* same content.
C20_NeverOverwrites ==
    [][(created.tag = "NotCalled" /\ created'.tag # "NotCalled")
          => \A l \in DOMAIN files : l \in DOMAIN files' /\ files'[l] = files[l]]_vars

\* a pass that created a file for one link and left alone the file of another
\* link, whose content is not what the pass would have written
C20_Witness ==
    /\ created.tag = "Ok"
    /\ \E a, b \in Links(TopLevel(book_summary)) :
          /\ Target(a) = <<"/", "book", "src", "a.md">>
          /\ Entry(Target(a)) = File("# A")
          /\ Entry(Target(a)).content # "# " \o a.name \o "\n"
          /\ Target(b) = <<"/", "book", "src", "sub", "c.md">>
          /\ Entry(Target(b)) = File("# " \o b.name \o "\n")
          /\ Entry(<<"/", "book", "src", "sub">>) = Dir

-----------------------------------------------------------------------------
(* C21 *)

\* C21: the pass that creates missing files is idempotent: a second pass over
\* the same outline and content source ends as the first did, without error
\* when the first had none, and leaves the content source as the first pass
\* left it.
C21_Idempotent ==
    [][(again.tag = "NotCalled" /\ again'.tag # "NotCalled")
          => /\ files' = files
             /\ created.tag = "Ok" => again'.tag = "Ok"
             /\ again'.tag = created.tag]_vars

\* a second pass after a first pass that created a directory and in it the
\* file of a nested link
C21_Witness ==
    /\ created.tag = "Ok"
    /\ again.tag = "Ok"
    /\ \E a, c \in Links(TopLevel(book_summary)) :
          /\ c \in Links(a.nested_items)
          /\ Entry(Target(a)).kind = "File"
          /\ Entry(Target(c)) = File("# " \o c.name \o "\n")
          /\ Target(c) = <<"/", "book", "src", "sub", "c.md">>
          /\ Entry(<<"/", "book", "src", "sub">>) = Dir

-----------------------------------------------------------------------------
(* src/config.rs: Config, with the typed tables `book` and `build` and the  *)
(* table `rest` of everything else, read and written with toml_query.      *)

\* toml::Value: a string, a boolean or a table
String(x) == [t |-> "String", s |-> x, b |-> FALSE, m |-> <<>>]
Boolean(x) == [t |-> "Boolean", s |-> "", b |-> x, m |-> <<>>]
Table(f) == [t |-> "Table", s |-> "", b |-> FALSE, m |-> f]

\* Option<&Value>
NoValue == [some |-> FALSE, val |-> <<>>]

\* Option<String>::None
NoString == [some |-> FALSE, val |-> ""]

\* Table::insert
Put(f, k, v) == [x \in (DOMAIN f) \cup {k} |-> IF x = k THEN v ELSE f[x]]

\* the tokens of a toml_query query: the pieces between the dots
RECURSIVE Split(_, _)
Split(key, from) ==
    LET dot == FindFrom(key, ".", from)
    IN  IF dot = 0 THEN <<SubSeq(key, from, Len(key))>>
        ELSE <<SubSeq(key, from, dot - 1)>> \o Split(key, dot + 1)

\* toml_query's tokenizer: an empty query or an empty piece is an error
Tokenize(key) ==
    LET toks == Split(key, 1)
    IN  IF key = "" \/ \E i \in 1..Len(toks) : toks[i] = "" THEN Err("query")
        ELSE Ok(toks)

\* TomlValueInsertExt::insert along the tokens: the tables on the way are
\* created when missing; a value on the way that is no table is an error
RECURSIVE InsertAt(_, _, _)
InsertAt(v, toks, value) ==
    IF v.t # "Table" THEN Err("no table")
    ELSE IF Len(toks) = 1 THEN Ok(Table(Put(v.m, toks[1], value)))
    ELSE LET child == IF toks[1] \in DOMAIN v.m THEN v.m[toks[1]] ELSE Table(<<>>)
             below == InsertAt(child, Tail(toks), value)
         IN  IF Failed(below) THEN below
             ELSE Ok(Table(Put(v.m, toks[1], below.val)))

insert(v, key, value) ==
    LET toks == Tokenize(key)
    IN  IF Failed(toks) THEN toks ELSE InsertAt(v, toks.val, value)

\* TomlValueReadExt::read along the tokens
RECURSIVE ReadAt(_, _)
ReadAt(v, toks) ==
    IF v.t # "Table" THEN Err("no table")
    ELSE IF toks[1] \notin DOMAIN v.m THEN Ok(NoValue)
    ELSE IF Len(toks) = 1 THEN Ok(Some(v.m[toks[1]]))
    ELSE ReadAt(v.m[toks[1]], Tail(toks))

read(v, key) ==
    LET toks == Tokenize(key)
    IN  IF Failed(toks) THEN toks ELSE ReadAt(v, toks.val)

\* what is handed to Config::set: a &str, a bool, or a value that toml cannot
\* represent (a unit, a None)
SetValues == { [ty |-> "str", s |-> "Something Interesting", b |-> FALSE],
               [ty |-> "str", s |-> "src/theme", b |-> FALSE],
               [ty |-> "bool", s |-> "", b |-> TRUE],
               [ty |-> "unit", s |-> "", b |-> FALSE] }

\* Value::try_from(value)
ValueTryFrom(x) ==
    IF x.ty = "str" THEN Ok(String(x.s))
    ELSE IF x.ty = "bool" THEN Ok(Boolean(x.b))
    ELSE Err("unsupported type")

\* Value::try_into::<T>() for the T that was handed to set
TryInto(v) ==
    IF v.t = "String" THEN Ok([ty |-> "str", s |-> v.s, b |-> FALSE])
    ELSE IF v.t = "Boolean" THEN Ok([ty |-> "bool", s |-> "", b |-> v.b])
    ELSE Err("Couldn't deserialize the value")

\* BookConfig::default() and BuildConfig::default(), as the tables that
\* Value::try_from(&self) gives: an Option that is None has no entry
BookConfigDefault == [authors |-> <<>>, src |-> "src", multilingual |-> FALSE,
                      title |-> NoString, description |-> NoString]
BuildConfigDefault == [build_dir |-> "book", create_missing |-> TRUE]

\* Config::default()
ConfigDefault == [book |-> BookConfigDefault, build |-> BuildConfigDefault,
                  rest |-> Table(<<>>)]

\* Updateable::update_value for BookConfig: the struct goes to a table, the
\* value is inserted, and the table comes back as a struct when it still
\* deserializes; a key of no field is dropped, a value of the wrong type
\* leaves the struct as it was
update_book(bk, key, value) ==
    IF key \in {"title", "description"} /\ value.t = "String"
        THEN [bk EXCEPT ![key] = Some(value.s)]
    ELSE IF key = "src" /\ value.t = "String" THEN [bk EXCEPT !.src = value.s]
    ELSE IF key = "multilingual" /\ value.t = "Boolean"
        THEN [bk EXCEPT !.multilingual = value.b]
    ELSE bk

\* Updateable::update_value for BuildConfig (kebab-case field names)
update_build(bd, key, value) ==
    IF key = "build-dir" /\ value.t = "String" THEN [bd EXCEPT !.build_dir = value.s]
    ELSE IF key = "create-missing" /\ value.t = "Boolean"
        THEN [bd EXCEPT !.create_missing = value.b]
    ELSE bd

\* Config::get
get(c, key) ==
    LET inner == read(c.rest, key)
    IN  IF Failed(inner) THEN NoValue ELSE inner.val

\* Config::get_deserialized
get_deserialized(c, name) ==
    LET value == get(c, name)
    IN  IF value.some THEN TryInto(value.val) ELSE Err("Key not found")

\* Config::set: the Config it leaves and the Result it returns
set(c, index, x) ==
    LET value == ValueTryFrom(x)
    IN  IF Failed(value)
        THEN [config |-> c, result |-> Err("Unable to represent the item as a JSON Value")]
        ELSE IF starts_with(index, "book.")
        THEN [config |-> [c EXCEPT !.book = update_book(@, SubSeq(index, 6, Len(index)),
                                                        value.val)],
              result |-> Ok(<<>>)]
        ELSE IF starts_with(index, "build.")
        THEN [config |-> [c EXCEPT !.build = update_build(@, SubSeq(index, 7, Len(index)),
                                                          value.val)],
              result |-> Ok(<<>>)]
        ELSE LET r == insert(c.rest, index, value.val)
             IN  IF Failed(r) THEN [config |-> c, result |-> r]
                 ELSE [config |-> [c EXCEPT !.rest = r.val], result |-> Ok(<<>>)]

\* the keys handed to set and get
Keys == { "foo.bar.baz", "foo.bar", "foo", "output.html.theme", "book.title",
          "book.src", "build.create-missing", "book", "bookish.title", "foo..bar", "" }

\* most calls of set on one Config
MaxSets == 2

InitConfig ==
    /\ config = Ok([c |-> ConfigDefault, sets |-> 0])
    /\ last_set = NotCalled
    /\ fetched = NotCalled
    /\ line = ""
    /\ width = SpacesInTab
    /\ out = NotCalled
    /\ IdleParse
    /\ IdleBook
    /\ IdleWalk
    /\ IdleLoad
    /\ IdleInit

KeepConfig == UNCHANGED <<pureVars, parseVars, bookVars, walkVars, loadVars, initVars>>

\* cfg.set(key, value)
ConfigSet ==
    /\ config.tag = "Ok"
    /\ config.val.sets < MaxSets
    /\ \E key \in Keys, x \in SetValues :
          LET r == set(config.val.c, key, x)
          IN  /\ config' = Ok([c |-> r.config, sets |-> config.val.sets + 1])
              /\ last_set' = [tag |-> r.result.tag, val |-> [key |-> key, value |-> x]]
    /\ fetched' = NotCalled
    /\ KeepConfig

\* cfg.get(key) and cfg.get_deserialized(key), for the key of the last set
ConfigGet ==
    /\ last_set # NotCalled
    /\ fetched = NotCalled
    /\ fetched' = Ok([value |-> get(config.val.c, last_set.val.key),
                      deserialized |-> get_deserialized(config.val.c, last_set.val.key)])
    /\ UNCHANGED <<config, last_set>>
    /\ KeepConfig

NextConfig ==
    \/ ConfigSet
    \/ ConfigGet

SpecConfig == InitConfig /\ [][NextConfig]_vars

-----------------------------------------------------------------------------
(* src/cmd/init.rs: `mdbook init`.  The flags, the answers typed at the      *)
(* prompts and what `git config` says are the inputs; what the builder is   *)
(* left with when build() is called is the result.                         *)

\* args.is_present("theme"), args.is_present("force"), the answers to the two
\* confirm() prompts, what request_book_title() and get_author_name() return
InitArgs ==
    [theme : BOOLEAN, force : BOOLEAN, confirm_theme : BOOLEAN,
     confirm_gitignore : BOOLEAN,
     title : {NoString, Some("My Book")},
     author : {NoString, Some("Jane Doe"), Some("")}]

\* MDBook::init(&book_dir): a builder with the default configuration
BuilderInit == [config |-> ConfigDefault, copy_theme |-> FALSE, create_gitignore |-> FALSE]

\* fn execute(args) -> Result<()>, up to `builder.build()`: the builder as
\* build() finds it
execute(a) ==
    LET themed == IF a.theme
                  THEN set(ConfigDefault, "output.html.theme",
                           [ty |-> "str", s |-> "src/theme", b |-> FALSE])
                  ELSE [config |-> ConfigDefault, result |-> Ok(<<>>)]
    IN  IF Failed(themed.result) THEN themed.result          \* `?`
        ELSE LET copy_theme == a.theme /\ (a.force \/ a.confirm_theme)
                 create_gitignore == ~a.force /\ a.confirm_gitignore
                 titled == [themed.config EXCEPT
                               !.book.title = IF a.force THEN NoString ELSE a.title]
                 builder == [BuilderInit EXCEPT !.copy_theme = copy_theme,
                                                !.create_gitignore = create_gitignore]
             IN  IF a.author.some
                 THEN Ok([builder EXCEPT
                             !.config = [titled EXCEPT
                                            !.book.authors = Append(@, a.author.val)]])
                 ELSE Ok(builder)

InitInit ==
    /\ init_args \in {Ok(a) : a \in InitArgs}
    /\ built = NotCalled
    /\ line = ""
    /\ width = SpacesInTab
    /\ out = NotCalled
    /\ IdleParse
    /\ IdleBook
    /\ IdleWalk
    /\ IdleLoad
    /\ IdleConfig

\* one run of `mdbook init`
Execute ==
    /\ init_args.tag = "Ok"
    /\ built = NotCalled
    /\ built' = execute(init_args.val)
    /\ UNCHANGED init_args
    /\ UNCHANGED <<pureVars, parseVars, bookVars, walkVars, loadVars, configVars>>

NextInit == Execute

SpecInit == InitInit /\ [][NextInit]_vars

\* the stub written for a link: a heading with its display name, on one line
Stub(link) == File("# " \o link.name \o "\n")

\* C22: a pass of create_missing that succeeds leaves the target of every link
\* of the outline in the content source, nested links and the links of all
\* three groups included; every file that the pass added is the stub of a
\* link that targets it; and load_book_from_disk, run after such a pass, does
\* not fail with "Chapter file not found".
C22_NothingMissingAfterPass ==
    [][/\ (created.tag = "NotCalled" /\ created'.tag = "Ok") =>
             /\ \A link \in Links(TopLevel(book_summary)) :
                    EntryIn(files', Target(link)).kind # "None"
             /\ \A p \in (DOMAIN files') \ (DOMAIN files) :
                    \/ files'[p] = Dir
                    \/ \E link \in Links(TopLevel(book_summary)) :
                          Target(link) = p /\ files'[p] = Stub(link)
       /\ (created.tag = "Ok" /\ book.tag = "NotCalled" /\ book'.tag # "NotCalled") =>
             book' # Err("Chapter file not found")]_vars

\* a book loaded after a pass that found the file of a link of the numbered
\* chapters in place and created the file of a link nested under it
C22_Witness ==
    /\ cfg.create_missing
    /\ created.tag = "Ok"
    /\ book.tag = "Ok"
    /\ \E a \in Links(book_summary.numbered_chapters) :
          \E c \in Links(a.nested_items) :
              /\ Entry(Target(a)).kind = "File"
              /\ Entry(Target(a)) # Stub(a)
              /\ Entry(Target(c)) = Stub(c)
              /\ \E i \in 1..Len(book.val.sections) :
                    /\ book.val.sections[i].kind = "Chapter"
                    /\ book.val.sections[i].name = a.name
                    /\ \E j \in 1..Len(book.val.sections[i].sub_items) :
                          book.val.sections[i].sub_items[j].content = Stub(c).content

\* C23: load_book changes the content source in one place only: in the step
\* that runs create_missing, which is taken only when cfg.create_missing is
\* set, only after SUMMARY.md was read and parsed, and only before any chapter
\* is loaded.  With the flag off, or with SUMMARY.md unreadable or
\* unparsable, no step of load_book changes a file.
C23_ChangesOnlyWhenEnabled ==
    [][/\ (~cfg.create_missing \/ summary_md.tag # "Ok") => files' = files
       /\ files' # files =>
             /\ cfg.create_missing
             /\ summary_md.tag = "Ok"
             /\ book_summary = summary_md.val
             /\ book = NotCalled
             /\ created = NotCalled
             /\ created' # NotCalled]_vars

\* load_book has failed on a missing chapter file with the flag off, and the
\* file is still missing
C23_Witness ==
    /\ ~cfg.create_missing
    /\ created = NotCalled
    /\ book = Err("Chapter file not found")
    /\ \E link \in Links(TopLevel(book_summary)) : Entry(Target(link)).kind = "None"

\* the references that iter() yields from the queue `items` on, in order
RECURSIVE IterRun(_, _)
IterRun(items, sections) ==
    IF items = <<>> THEN <<>>
    ELSE LET r == next(items, sections)
         IN  <<r.item.ref>> \o IterRun(r.items, sections)

\* an item without its content and without what is below it
Facet(item) ==
    IF item.kind = "Separator" THEN [kind |-> "Separator"]
    ELSE [kind |-> item.kind, name |-> item.name, number |-> item.number,
          path |-> item.path, parent_names |-> item.parent_names]

\* what iter() yields over `sections`: place, kind, name, number, path and
\* parent_names of each item
Traversal(sections) ==
    LET run == IterRun(Collect(Len(sections)), sections)
    IN  [k \in 1..Len(run) |-> <<run[k], Facet(ItemAt(sections, run[k]))>>]

\* the tree with every content left out
RECURSIVE Shape(_)
Shape(items) ==
    [k \in 1..Len(items) |->
        IF items[k].kind = "Separator" THEN items[k]
        ELSE [items[k] EXCEPT !.content = "", !.sub_items = Shape(@)]]

\* C24: a pass of for_each_mut with a callback that changes at most the
\* content of chapters leaves the tree and the traversal as they were: iter()
\* yields the same kinds, names, numbers, paths and parent_names at the same
\* places in the same order, and the trees before and after differ in content
\* fields only.
C24_ShapeKept ==
    [][(calls = NotCalled /\ calls' # NotCalled) =>
          /\ Traversal(book'.val.sections) = Traversal(book.val.sections)
          /\ Shape(book'.val.sections) = Shape(book.val.sections)]_vars

\* a pass has replaced the content of a chapter and of a chapter below it
C24_Witness ==
    /\ calls # NotCalled
    /\ book.tag = "Ok"
    /\ \E i \in 1..Len(book.val.sections) :
          LET ch == book.val.sections[i]
          IN  /\ ch.kind = "Chapter"
              /\ ch.content = "changed"
              /\ \E j \in 1..Len(ch.sub_items) :
                    ch.sub_items[j].kind = "Chapter" /\ ch.sub_items[j].content = "changed"

\* C25: whenever set(key, value) has returned Ok, get(key) on the Config it
\* left returns that value, and get_deserialized(key) returns it as it was
\* handed in, whatever the dotted key.
C25_SetThenGet ==
    (last_set.tag = "Ok" /\ fetched # NotCalled) =>
        /\ fetched.val.value.some
        /\ ValueTryFrom(last_set.val.value) = Ok(fetched.val.value.val)
        /\ fetched.val.deserialized = Ok(last_set.val.value)

\* the root call's first counter is the closed sentinel
Closed == stack # <<>> /\ stack[1].section[1] = -1

\* a bare link at the root has been consumed after a list-style link at the
\* root
BackMatterBegun ==
    \E j \in 1..Consumed :
        /\ RootLine(j, "Affix")
        /\ \E i \in 1..(j - 1) : RootLine(i, "Chapter")

\* C26: while the root call of parse_level runs, its first counter is -1
\* exactly when a bare link has been consumed at the root after a list-style
\* link at the root; so bare links before the first list-style link and
\* separators at the root do not set it.  No nested call holds or sets the
\* -1, and once the root's counter is -1 it stays -1 as long as the parse
\* runs.
C26_ClosedSentinel ==
    /\ [](stack # <<>> =>
             /\ Closed <=> BackMatterBegun
             /\ \A k \in 2..Len(stack) : stack[k].section[1] # -1)
    /\ [][Closed /\ stack' # <<>> => Closed']_vars

\* the root call is closed after a bare link before the first list-style
\* link, the list-style link, a separator and a second bare link
C26_Witness ==
    /\ Closed
    /\ Consumed = 4
    /\ RootLine(1, "Affix")
    /\ RootLine(2, "Chapter")
    /\ RootLine(3, "Spacer")
    /\ RootLine(4, "Affix")

\* kind, name and path of each item of a sequence
Entries(items) ==
    [k \in 1..Len(items) |->
        [kind |-> items[k].kind, name |-> items[k].name, path |-> items[k].path]]

\* the items that parse_line makes of the first n lines of the input, in the
\* order of the lines
RECURSIVE ItemLines(_)
ItemLines(n) ==
    IF n = 0 THEN <<>>
    ELSE IF parse_line(input[n]) = None THEN ItemLines(n - 1)
    ELSE Append(ItemLines(n - 1), parse_line(input[n]))

\* C27: in a parse that returns Ok, every line that parse_line makes an item
\* of is in the returned tree once, and the items of the tree, each parent
\* before its nested items, are in the order of the lines: nothing is dropped,
\* replaced or duplicated.
C27_EveryItemKept ==
    result.tag = "Ok" => Entries(Flatten(result.val)) = Entries(ItemLines(Len(input)))

\* the items of the book that are stored, at some depth, below a
\* VirtualChapter
UnderVirtual ==
    { AllItems[k] : k \in { n \in 1..Len(AllItems) :
        \E d \in 1..(Len(AllItems[n]) - 1) :
            ItemAt(book.val.sections, SubSeq(AllItems[n], 1, d)).kind = "VirtualChapter" } }

\* C28: the sub_items of a VirtualChapter are walked like those of a Chapter:
\* every item stored below a VirtualChapter has been yielded when iter() is at
\* its end, and has been handed to the callback when for_each_mut returns.
C28_VirtualChapterEntered ==
    book.tag = "Ok" =>
        /\ (iterator.live /\ iterator.done) =>
              \A r \in UnderVirtual : \E k \in 1..Len(yielded) : yielded[k] = r
        /\ calls.tag = "Ok" =>
              \A r \in UnderVirtual : \E k \in 1..Len(calls.val) : calls.val[k] = r

\* the passes through the loop, from the call stack[k] outwards, before the
\* line at the head of `summary` is consumed or refused: one return for each
\* call that is deeper than the line, one nested call when the line is deeper
RECURSIVE StepsToLine(_)
StepsToLine(k) ==
    IF stack[k].current_level > HeadLevel.val
    THEN 1 + (IF k > 1 THEN StepsToLine(k - 1) ELSE 0)
    ELSE IF stack[k].current_level < HeadLevel.val THEN 1
    ELSE 0

\* a bound on the passes through the loop that are left
Measure ==
    IF stack = <<>> THEN 0
    ELSE IF summary = <<>> THEN Len(stack)
    ELSE (Len(input) + 3) * Len(summary)
            + (IF HeadLevel.tag # "Ok" THEN 1 ELSE StepsToLine(Len(stack)))

\* one pass through the loop has removed the first line
ConsumesLine == summary # <<>> /\ summary' = Tail(summary) /\ Len(stack') = Len(stack)

\* the call has returned to its caller, or an error has left every call
Returns == Len(stack') < Len(stack) /\ summary' = summary

\* a nested call has been made whose first pass through the loop finds the
\* line at its own level: it consumes the line or fails on it
CallsNested ==
    /\ Len(stack') = Len(stack) + 1
    /\ summary' = summary
    /\ summary # <<>>
    /\ stack'[Len(stack')].current_level = HeadLevel.val

\* C29: parse_level terminates.  Every pass through the loop consumes one
\* line, returns to the caller (or fails), or makes a nested call whose first
\* pass consumes the line or fails; a pass over a line at the call's own
\* level consumes it or fails; with every pass the bound on the passes left
\* gets smaller, so no input keeps the loop going for ever.  The root call
\* returns Ok only with every line consumed.
C29_Terminates ==
    /\ [](result.tag = "Ok" => summary = <<>>)
    /\ [][/\ ConsumesLine \/ Returns \/ CallsNested
          /\ SameLevel => (ConsumesLine \/ Failed(result'))
          /\ Measure' < Measure]_vars

\* a parse has returned Ok after a nested call two levels down, a return to
\* the root and a line that is no item
C29_Witness ==
    /\ result.tag = "Ok"
    /\ summary = <<>>
    /\ Len(input) = 4
    /\ RootLine(1, "Chapter")
    /\ BelowRoot(2) /\ LevelAt(2).val = 2
    /\ input[3] = ""
    /\ RootLine(4, "Chapter")

\* C30: in every run of `init` the builder that build() is called on holds
\* the configuration that execute has put together: the title typed at the
\* prompt (none with --force) and, with --theme, output.html.theme set to
\* "src/theme", whether or not get_author_name() gave a name.
C30_ConfigApplied ==
    built.tag = "Ok" =>
        /\ built.val.config.book.title =
              (IF init_args.val.force THEN NoString ELSE init_args.val.title)
        /\ init_args.val.theme =>
              get(built.val.config, "output.html.theme") = Some(String("src/theme"))

=============================================================================
